---- MODULE Spec2Model ----
(***************************************************************************)
(* A model of the PDF numeric comparison tool (pdf_compare22.py, its      *)
(* callers run_pipeline.py and orchestrator.py, and the aligners of        *)
(* pdf_compare.py and pdf_compare_01.py).                                  *)
(*                                                                         *)
(* Conventions of the model:                                               *)
(*  - a Python str is a sequence of one-character strings;                 *)
(*  - a Python float is an exact decimal <<whole, units>> of value         *)
(*    whole + units * 10^-FracDigits, both parts carrying the sign          *)
(*    (binary rounding of floats is not modelled);                         *)
(*  - a fitz.Rect is the tuple <<x0, y0, x1, y1>>;                         *)
(*  - sequence positions are 1-based, the code's are 0-based.              *)
(***************************************************************************)
EXTENDS Integers, Sequences, FiniteSets, TLC

VARIABLES
    tkText, tkOut, tkPc,                 \* harness of the two tokenizers
    tkText2,                             \* second word of a compared pair
    tkWords, tkWords2,                   \* a response's words in two orders
    entry, argsOk, exists1, exists2,     \* command line and file system
    ocrEnv, doc1, doc2,                  \* recognition capability, documents
    pc, cur, page_num, all_numbers,      \* position, extract_all_numbers locals
    ocr_pages_count, pageLog,
    numbers1, numbers2, ocr_pages1, ocr_pages2,
    differences, report,                 \* main's locals
    pdfWritten, jsonWritten, explained,  \* artefacts of this run
    output_doc,                          \* the composite pages of this run
    exitCode, events,                    \* process exit status, stages so far
    run, prevDifferences,                \* repeated runs on the same pair
    samples, pairs, pair_i, calls,       \* run_all_samples: tree, loop
    results, summary, batchPc            \* its results, counts, position

vars == <<tkText, tkOut, tkPc, tkText2, tkWords, tkWords2, entry, argsOk, exists1, exists2, ocrEnv, doc1,
          doc2, pc, cur, page_num, all_numbers, ocr_pages_count, pageLog,
          numbers1, numbers2, ocr_pages1, ocr_pages2, differences, report,
          pdfWritten, jsonWritten, explained, output_doc, exitCode, events,
          run,
          prevDifferences, samples, pairs, pair_i, calls, results, summary,
          batchPc>>

---------------------------------------------------------------------------
(* Bounds of the model *)

\* decimal places kept by the fixed-point image of a float
FracDigits == 5
\* longest enumerated text handed to the tokenizers
MaxText == 3
\* longest token sequence handed to compare_numbers (rich token pool)
MaxTokens == 2
\* longest token sequence handed to compare_numbers (two-token pool)
MaxLong == 5
\* most pages of a document extracted alone
MaxPages == 2
\* most pages of each document of a compared pair
MaxPairPages == 1
\* most runs of the tool on one document pair
MaxRuns == 2
MaxWords == 3
\* files in a sample directory, entries in the samples folder
MaxFiles == 3
MaxSamples == 3

---------------------------------------------------------------------------
(* Characters and strings *)

Digits == {"0", "1", "2", "3", "4", "5", "6", "7", "8", "9"}

\* the four glyphs str.replace removes at pdf_compare22.py:372
CurrencyGlyphs == {"$", "YEN", "EUR", "GBP"}

Whitespace == {" ", "\n"}

DigitVal(c) ==
    CASE c = "0" -> 0 [] c = "1" -> 1 [] c = "2" -> 2 [] c = "3" -> 3
      [] c = "4" -> 4 [] c = "5" -> 5 [] c = "6" -> 6 [] c = "7" -> 7
      [] c = "8" -> 8 [] c = "9" -> 9

RECURSIVE Pow10(_)
Pow10(n) == IF n <= 0 THEN 1 ELSE 10 * Pow10(n - 1)

Abs(x) == IF x < 0 THEN -x ELSE x
Min(a, b) == IF a <= b THEN a ELSE b
Max(a, b) == IF a >= b THEN a ELSE b

\* str.replace(c, '') for every c of cs
RemoveChars(s, cs) == SelectSeq(s, LAMBDA c : c \notin cs)

RECURSIVE LStrip(_)
LStrip(s) == IF Len(s) > 0 /\ s[1] \in Whitespace THEN LStrip(Tail(s)) ELSE s

RECURSIVE RStrip(_)
RStrip(s) ==
    IF Len(s) > 0 /\ s[Len(s)] \in Whitespace
    THEN RStrip(SubSeq(s, 1, Len(s) - 1)) ELSE s

\* str.strip()
Strip(s) == RStrip(LStrip(s))

\* str.lower() on the letters the texts of the model use
LowerChar(c) ==
    CASE c = "C" -> "c" [] c = "I" -> "i" [] c = "D" -> "d" [] c = "A" -> "a"
      [] c = "P" -> "p" [] c = "O" -> "o" [] c = "L" -> "l" [] c = "E" -> "e"
      [] c = "N" -> "n" [] c = "T" -> "t" [] c = "X" -> "x" [] c = "B" -> "b"
      [] OTHER -> c

Lower(s) == [i \in 1..Len(s) |-> LowerChar(s[i])]

\* needle in text
Contains(text, needle) ==
    \E i \in 1..(Len(text) - Len(needle) + 1) :
        SubSeq(text, i, i + Len(needle) - 1) = needle

CidMarker == <<"(", "c", "i", "d", ":">>

\* the value of a run of decimal digits
RECURSIVE DigitsValue(_)
DigitsValue(ds) ==
    IF Len(ds) = 0 THEN 0
    ELSE 10 * DigitsValue(SubSeq(ds, 1, Len(ds) - 1)) + DigitVal(ds[Len(ds)])

\* the first FracDigits digits of a fraction, as units
FracValue(ds) ==
    LET kept == SubSeq(ds, 1, Min(Len(ds), FracDigits))
    IN  DigitsValue(kept) * Pow10(FracDigits - Len(kept))

\* float(s): whether it returns (ok) or raises ValueError, and the value.
\* Grammar over the model's characters: optional surrounding whitespace,
\* optional "-", then digits with at most one "." and at least one digit.
NoFloat == [ok |-> FALSE, v |-> <<0, 0>>]

ParseFloat(s) ==
    LET t    == Strip(s)
        neg  == Len(t) > 0 /\ t[1] = "-"
        body == IF neg THEN Tail(t) ELSE t
        dots == {i \in 1..Len(body) : body[i] = "."}
    IN  IF /\ \A i \in 1..Len(body) : body[i] \in Digits \cup {"."}
           /\ Cardinality(dots) <= 1
           /\ \E i \in 1..Len(body) : body[i] \in Digits
        THEN LET d       == IF dots = {} THEN Len(body) + 1
                            ELSE CHOOSE i \in dots : TRUE
                 whole   == SubSeq(body, 1, d - 1)
                 frac    == SubSeq(body, d + 1, Len(body))
                 w       == DigitsValue(whole)
                 u       == FracValue(frac)
             IN  [ok |-> TRUE, v |-> IF neg THEN <<-w, -u>> ELSE <<w, u>>]
        ELSE NoFloat

\* first position at or after i whose character is not in cs
RECURSIVE RunEnd(_, _, _)
RunEnd(t, i, cs) ==
    IF i <= Len(t) /\ t[i] \in cs THEN RunEnd(t, i + 1, cs) ELSE i

RECURSIVE Flatten(_)
Flatten(ss) == IF Len(ss) = 0 THEN <<>> ELSE Head(ss) \o Flatten(Tail(ss))

---------------------------------------------------------------------------
(* Data model: NumberMatch and Difference *)

NumberMatch(value, numeric_value, page, rect, line_number, source) ==
    [value |-> value, numeric_value |-> numeric_value, page |-> page,
     rect |-> rect, line_number |-> line_number, source |-> source]

Difference(page, line, old_value, new_value, old_rect, new_rect, source) ==
    [page |-> page, line |-> line, old_value |-> old_value,
     new_value |-> new_value, old_rect |-> old_rect, new_rect |-> new_rect,
     source |-> source]

\* fitz.Rect()
EmptyRect == <<0, 0, 0, 0>>

\* the literal "<missing>"
Missing == <<"<", "m", "i", "s", "s", "i", "n", "g", ">">>

---------------------------------------------------------------------------
(* Text-layer extractor: extract_numbers_from_page *)

\* number_pattern -?[\d,]+\.?\d* tried at position i: the position after the
\* match, or 0 when the pattern does not match there.  Every later part of
\* the pattern may match the empty string, so the greedy attempt succeeds.
MatchNumberAt(t, i) ==
    LET s  == IF t[i] = "-" THEN i + 1 ELSE i
        e1 == RunEnd(t, s, Digits \cup {","})
    IN  IF e1 = s THEN 0
        ELSE LET e2 == IF e1 <= Len(t) /\ t[e1] = "." THEN e1 + 1 ELSE e1
             IN  RunEnd(t, e2, Digits)

\* number_pattern.finditer(text) from position i: the matches in order
RECURSIVE Finditer(_, _)
Finditer(t, i) ==
    IF i > Len(t) THEN <<>>
    ELSE LET e == MatchNumberAt(t, i)
         IN  IF e = 0 THEN Finditer(t, i + 1)
             ELSE <<[start |-> i, end |-> e]>> \o Finditer(t, e)

\* the end of the loop body, given the match text and float(clean_num)
SpanToken(span, m, pnum, line_counter, num_str, f) ==
    LET width     == span.bbox[3] - span.bbox[1]
        n         == Max(Len(span.text), 1)
        start_x   == span.bbox[1] + ((m.start - 1) * width) \div n
        end_x     == span.bbox[1] + ((m.end - 1) * width) \div n
    IN  IF num_str \in {<<",">>, <<".">>, <<"-">>} \/ ~f.ok THEN <<>>
        ELSE <<NumberMatch(num_str, f.v, pnum,
                           <<start_x, span.bbox[2], end_x, span.bbox[4]>>,
                           line_counter, "text")>>

\* the body of the loop over matches: no token or one token
SpanMatchToken(span, m, pnum, line_counter) ==
    SpanToken(span, m, pnum, line_counter,
              SubSeq(span.text, m.start, m.end - 1),
              ParseFloat(RemoveChars(SubSeq(span.text, m.start, m.end - 1),
                                     {","})))

\* variant: the first match that yields no token ends the scan of the span
SpanNumbers_StopsAtSkip(span, pnum, line_counter) ==
    LET ms   == Finditer(span.text, 1)
        toks == [k \in 1..Len(ms) |->
                    SpanMatchToken(span, ms[k], pnum, line_counter)]
        skip == {k \in 1..Len(ms) : toks[k] = <<>>}
        stop == IF skip = {} THEN Len(ms)
                ELSE (CHOOSE k \in skip : \A j \in skip : k <= j) - 1
    IN  Flatten(SubSeq(toks, 1, stop))

SpanNumbers(span, pnum, line_counter) ==
    LET ms == Finditer(span.text, 1)
    IN  Flatten([k \in 1..Len(ms) |->
                    SpanMatchToken(span, ms[k], pnum, line_counter)])

\* the lines of the text blocks (type 0), in document order
TextLines(page) ==
    Flatten([b \in 1..Len(page.blocks) |->
                IF page.blocks[b].type = 0 THEN page.blocks[b].lines
                ELSE <<>>])

SpanIsSelectable(span) ==
    Strip(span.text) # <<>> /\ ~Contains(Lower(span.text), CidMarker)

extract_numbers_from_page(page, pnum) ==
    LET lines == TextLines(page)
    IN  [numbers |->
            Flatten([k \in 1..Len(lines) |->
                Flatten([s \in 1..Len(lines[k]) |->
                            SpanNumbers(lines[k][s], pnum, k)])]),
         has_selectable_text |->
            \E k \in 1..Len(lines) : \E s \in 1..Len(lines[k]) :
                SpanIsSelectable(lines[k][s])]

\* page.get_text(): the text of the text blocks, a newline after each line
PageRawText(page) ==
    LET lines == TextLines(page)
    IN  Flatten([k \in 1..Len(lines) |->
            Flatten([s \in 1..Len(lines[k]) |-> lines[k][s].text])
            \o <<"\n">>])

looks_like_cid_encoded(text) == Contains(Lower(text), CidMarker)

---------------------------------------------------------------------------
(* Recognition-fallback extractor: extract_numbers_from_ocr_words.         *)
(* Normalised coordinates are integers in thousandths (0..1000).           *)

\* one, in normalised coordinates
NormUnit == 1000

\* |current_y - last_y| > 0.03, in thousandths
LineTolerance == 30

\* round(y_center, 2), in hundredths: y0 + y1 is twice the centre, in
\* thousandths; a centre exactly between two hundredths goes to the even one
YRow(bbox) ==
    LET twice == bbox[2] + bbox[4]
        low   == twice \div 20
        rest  == twice % 20
    IN  IF rest < 10 THEN low
        ELSE IF rest > 10 THEN low + 1
        ELSE IF low % 2 = 0 THEN low ELSE low + 1

\* sort_key, with x_center doubled to stay an integer
sort_key(word) == <<YRow(word.bbox), word.bbox[1] + word.bbox[3]>>

KeyLE(a, b) == a[1] < b[1] \/ (a[1] = b[1] /\ a[2] <= b[2])

\* w placed after every word whose key is not greater: sorted() is stable
InsertWord(ws, w) ==
    LET k == Cardinality({i \in 1..Len(ws) : KeyLE(sort_key(ws[i]), sort_key(w))})
    IN  SubSeq(ws, 1, k) \o <<w>> \o SubSeq(ws, k + 1, Len(ws))

RECURSIVE SortedWords(_)
SortedWords(ws) ==
    IF Len(ws) = 0 THEN <<>>
    ELSE InsertWord(SortedWords(SubSeq(ws, 1, Len(ws) - 1)), ws[Len(ws)])

DateSeps == {"-", "/"}

AllDigits(t, a, b) == \A i \in a..b : t[i] \in Digits

\* date_pattern: ^\d{4}[-/]\d{2}[-/]\d{2}$ | ^\d{2}[-/]\d{2}[-/]\d{4}$
DatePatternMatch(t) ==
    /\ Len(t) = 10
    /\ \/ /\ AllDigits(t, 1, 4) /\ t[5] \in DateSeps /\ AllDigits(t, 6, 7)
          /\ t[8] \in DateSeps /\ AllDigits(t, 9, 10)
       \/ /\ AllDigits(t, 1, 2) /\ t[3] \in DateSeps /\ AllDigits(t, 4, 5)
          /\ t[6] \in DateSeps /\ AllDigits(t, 7, 10)

\* number_pattern anchored: ^-?[\d,]+\.?\d*$
NumberPatternMatch(t) ==
    LET body == IF Len(t) > 0 /\ t[1] = "-" THEN Tail(t) ELSE t
        dots == {i \in 1..Len(body) : body[i] = "."}
    IN  /\ Len(body) > 0
        /\ \A i \in 1..Len(body) : body[i] \in Digits \cup {",", "."}
        /\ Cardinality(dots) <= 1
        /\ \A d \in dots : d > 1 /\ \A i \in (d + 1)..Len(body) : body[i] # ","

\* re.findall(r'\d+', t) from position i
RECURSIVE DigitRuns(_, _)
DigitRuns(t, i) ==
    IF i > Len(t) THEN <<>>
    ELSE IF t[i] \in Digits
         THEN LET e == RunEnd(t, i, Digits)
              IN  <<SubSeq(t, i, e - 1)>> \o DigitRuns(t, e)
         ELSE DigitRuns(t, i + 1)

\* word_text with the currency glyphs removed, stripped
CleanText(word_text) == Strip(RemoveChars(word_text, CurrencyGlyphs))

\* variant: the region's offset is left out
MapRect_WithoutOffset(bbox, region) ==
    LET w == region[3] - region[1]
        h == region[4] - region[2]
    IN  <<(bbox[1] * w) \div NormUnit,
          (bbox[2] * h) \div NormUnit,
          (bbox[3] * w) \div NormUnit,
          (bbox[4] * h) \div NormUnit>>

\* normalised box mapped into the region's page-space rectangle
MapRect(bbox, region) ==
    LET w == region[3] - region[1]
        h == region[4] - region[2]
    IN  <<region[1] + (bbox[1] * w) \div NormUnit,
          region[2] + (bbox[2] * h) \div NormUnit,
          region[1] + (bbox[3] * w) \div NormUnit,
          region[2] + (bbox[4] * h) \div NormUnit>>

\* variant: the value is the first digit group alone
DateTokens_FirstGroupOnly(clean_text, pnum, num_rect, line_counter) ==
    LET date_nums == DigitRuns(clean_text, 1)
        f         == ParseFloat(date_nums[1])
    IN  IF Len(date_nums) = 3 /\ f.ok
        THEN <<NumberMatch(clean_text, f.v, pnum, num_rect,
                           line_counter, "ocr")>>
        ELSE <<>>

\* the date branch
DateTokens(clean_text, pnum, num_rect, line_counter) ==
    LET date_nums == DigitRuns(clean_text, 1)
        f         == ParseFloat(Flatten(date_nums))
    IN  IF Len(date_nums) = 3 /\ f.ok
        THEN <<NumberMatch(clean_text, f.v, pnum, num_rect,
                           line_counter, "ocr")>>
        ELSE <<>>

\* the pure-number branch
PureNumberTokens(clean_text, pnum, num_rect, line_counter) ==
    LET f == ParseFloat(RemoveChars(clean_text, {","}))
    IN  IF ~f.ok THEN <<>>
        ELSE IF RemoveChars(clean_text, {",", ".", "0"}) = <<>> THEN <<>>
        ELSE IF clean_text \in {<<",">>, <<".">>, <<"-">>} THEN <<>>
        ELSE <<NumberMatch(clean_text, f.v, pnum, num_rect,
                           line_counter, "ocr")>>

\* variant: the composite branch stores the whole word as the raw text
CompositeTokens_WholeWord(clean_text, pnum, num_rect, line_counter) ==
    LET num_parts == DigitRuns(clean_text, 1)
    IN  Flatten([k \in 1..Len(num_parts) |->
            IF Len(num_parts[k]) < 3 /\ Len(num_parts) > 1 THEN <<>>
            ELSE LET f == ParseFloat(num_parts[k])
                 IN  IF f.ok
                     THEN <<NumberMatch(clean_text, f.v, pnum, num_rect,
                                        line_counter, "ocr")>>
                     ELSE <<>>])

\* variant: a short digit run is dropped even when it is the only one
CompositeTokens_DropsEveryShortRun(clean_text, pnum, num_rect, line_counter) ==
    LET num_parts == DigitRuns(clean_text, 1)
    IN  Flatten([k \in 1..Len(num_parts) |->
            IF Len(num_parts[k]) < 3 THEN <<>>
            ELSE LET f == ParseFloat(num_parts[k])
                 IN  IF f.ok
                     THEN <<NumberMatch(num_parts[k], f.v, pnum, num_rect,
                                        line_counter, "ocr")>>
                     ELSE <<>>])

\* the composite branch: one token per kept digit run
CompositeTokens(clean_text, pnum, num_rect, line_counter) ==
    LET num_parts == DigitRuns(clean_text, 1)
    IN  Flatten([k \in 1..Len(num_parts) |->
            IF Len(num_parts[k]) < 3 /\ Len(num_parts) > 1 THEN <<>>
            ELSE LET f == ParseFloat(num_parts[k])
                 IN  IF f.ok
                     THEN <<NumberMatch(num_parts[k], f.v, pnum, num_rect,
                                        line_counter, "ocr")>>
                     ELSE <<>>])

\* the tokens of one non-empty cleaned word
WordTokens(clean_text, pnum, num_rect, line_counter) ==
    IF DatePatternMatch(clean_text)
    THEN DateTokens(clean_text, pnum, num_rect, line_counter)
    ELSE IF NumberPatternMatch(clean_text)
    THEN PureNumberTokens(clean_text, pnum, num_rect, line_counter)
    ELSE CompositeTokens(clean_text, pnum, num_rect, line_counter)

\* the loop over sorted_words from position i, with its two running locals
RECURSIVE OcrWordsFrom(_, _, _, _, _, _)
OcrWordsFrom(ws, i, pnum, region_rect, line_counter, last_y) ==
    IF i > Len(ws) THEN <<>>
    ELSE LET clean_text == CleanText(ws[i].text)
             current_y  == ws[i].bbox[2]
             newline    == last_y < 0 \/ Abs(current_y - last_y) > LineTolerance
             lc         == IF newline THEN line_counter + 1 ELSE line_counter
             ly         == IF newline THEN current_y ELSE last_y
         IN  IF clean_text = <<>>
             THEN OcrWordsFrom(ws, i + 1, pnum, region_rect,
                               line_counter, last_y)
             ELSE WordTokens(clean_text, pnum,
                             MapRect(ws[i].bbox, region_rect), lc)
                  \o OcrWordsFrom(ws, i + 1, pnum, region_rect, lc, ly)

extract_numbers_from_ocr_words(words_with_boxes, pnum, region_rect, base_line) ==
    OcrWordsFrom(SortedWords(words_with_boxes), 1, pnum, region_rect,
                 base_line, -1)

---------------------------------------------------------------------------
(* Document extractor: the body of the page loop of extract_all_numbers.   *)
(* A page is [blocks, images, ocr, width, height]; an image is             *)
(* [bbox, ocr]; a recognition outcome is [kind, words] with kind "words"   *)
(* (the call returned its word list), "empty" (the response holds no       *)
(* word), "error" (response.error.message is set, or the service call      *)
(* raised inside ocr_image_with_boxes: the empty list is returned) or      *)
(* "exc" (an exception raised in the caller's try block, while the page    *)
(* or the region is rendered).                                             *)

\* GoogleVisionOCRProcessor.ocr_image_with_boxes on an outcome
ocr_image_with_boxes(resp) == IF resp.kind = "words" THEN resp.words ELSE <<>>

\* ocr_processor is set, is_available() and pdfplumber_doc is open
OcrUsable(env) == env = "ok"

\* GoogleVisionOCRProcessor.clamp_bbox_to_page; <<>> stands for None
clamp_bbox_to_page(bbox, page_bbox) ==
    LET x0     == Max(page_bbox[1], Min(bbox[1], page_bbox[3]))
        x1     == Max(page_bbox[1], Min(bbox[3], page_bbox[3]))
        top    == Max(page_bbox[2], Min(bbox[2], page_bbox[4]))
        bottom == Max(page_bbox[2], Min(bbox[4], page_bbox[4]))
    IN  IF x0 >= x1 \/ top >= bottom THEN <<>> ELSE <<x0, top, x1, bottom>>

\* variant: the page's tokens are replaced before the result is looked at
FullPageResult_DropsNative(numbers, failed, ocr_numbers) ==
    IF failed \/ Len(ocr_numbers) = 0
    THEN [numbers |-> ocr_numbers, ocr_applied |-> FALSE]
    ELSE [numbers |-> ocr_numbers, ocr_applied |-> TRUE]

\* variant: a page counts as recognized as soon as words came back
FullPageResult_CountsWords(numbers, failed, ocr_numbers) ==
    IF failed THEN [numbers |-> numbers, ocr_applied |-> FALSE]
    ELSE IF Len(ocr_numbers) = 0
    THEN [numbers |-> numbers, ocr_applied |-> TRUE]
    ELSE [numbers |-> ocr_numbers, ocr_applied |-> TRUE]

\* the end of the full-page branch: OCR tokens replace the page's tokens
FullPageResult(numbers, failed, ocr_numbers) ==
    IF failed \/ Len(ocr_numbers) = 0
    THEN [numbers |-> numbers, ocr_applied |-> FALSE]
    ELSE [numbers |-> ocr_numbers, ocr_applied |-> TRUE]

\* the full-page branch (lines 591-639): the page's tokens and ocr_applied
FullPageOcr(page, pnum, numbers) ==
    FullPageResult(
        numbers,
        page.ocr.kind = "exc" \/ Len(ocr_image_with_boxes(page.ocr)) = 0,
        extract_numbers_from_ocr_words(
            ocr_image_with_boxes(page.ocr), pnum,
            <<0, 0, page.width, page.height>>, 0))

\* the tokens of one embedded image; none when the box clamps to nothing,
\* the try block raises or no word comes back
ImageNumbersIn(img, safe_bbox, pnum, base_line) ==
    IF safe_bbox = <<>> \/ img.ocr.kind = "exc" THEN <<>>
    ELSE extract_numbers_from_ocr_words(
             ocr_image_with_boxes(img.ocr), pnum, safe_bbox, base_line)

ImageNumbers(page, i, pnum, base_line) ==
    ImageNumbersIn(
        page.images[i],
        clamp_bbox_to_page(page.images[i].bbox,
                           <<0, 0, page.width, page.height>>),
        pnum, base_line)

\* variant: the image's tokens are put in front of the page's tokens
ImageStep_Prepends(acc, img_numbers) ==
    IF Len(img_numbers) = 0 THEN acc
    ELSE [numbers |-> img_numbers \o acc.numbers, ocr_applied |-> TRUE]

\* "if img_numbers: numbers.extend(img_numbers); ocr_applied = True"
ImageStep(acc, img_numbers) ==
    IF Len(img_numbers) = 0 THEN acc
    ELSE [numbers |-> acc.numbers \o img_numbers, ocr_applied |-> TRUE]

\* the loop over plumber_page.images from image i (lines 650-700)
RECURSIVE ImagesOcrFrom(_, _, _, _)
ImagesOcrFrom(page, i, pnum, acc) ==
    IF i > Len(page.images) THEN acc
    ELSE ImagesOcrFrom(page, i + 1, pnum,
             ImageStep(acc, ImageNumbers(page, i, pnum, Len(acc.numbers))))

\* the regions handed to recognition by the embedded-image branch: one per
\* image whose box clamps to something
ImageRegions(page) ==
    Flatten([i \in 1..Len(page.images) |->
        IF clamp_bbox_to_page(page.images[i].bbox,
                              <<0, 0, page.width, page.height>>) = <<>>
        THEN <<>> ELSE <<"image">>])

\* a branch's result with the regions it handed to recognition
WithRegions(r, regions) ==
    [numbers |-> r.numbers, ocr_applied |-> r.ocr_applied, regions |-> regions]

\* the branches after the native scan nat of the page (lines 590-703)
PageNumbersGiven(page, pnum, env, nat, needs_ocr) ==
    IF needs_ocr /\ OcrUsable(env)
    THEN WithRegions(FullPageOcr(page, pnum, nat.numbers), <<"page">>)
    ELSE IF nat.has_selectable_text /\ OcrUsable(env)
    THEN WithRegions(
             ImagesOcrFrom(page, 1, pnum,
                           [numbers |-> nat.numbers, ocr_applied |-> FALSE]),
             ImageRegions(page))
    ELSE WithRegions([numbers |-> nat.numbers, ocr_applied |-> FALSE], <<>>)

\* variant: an empty native result alone sends the page to recognition
NeedsOcr_WithoutMarker(page, env, nat) ==
    \/ ~nat.has_selectable_text
    \/ /\ Len(nat.numbers) = 0
       /\ env # "no_ocr"

\* "Check if we need OCR" (lines 573-588)
NeedsOcr(page, env, nat) ==
    \/ ~nat.has_selectable_text
    \/ /\ Len(nat.numbers) = 0
       /\ env # "no_ocr"
       /\ looks_like_cid_encoded(PageRawText(page))

NeedsOcrOf(page, pnum, env) ==
    NeedsOcr(page, env, extract_numbers_from_page(page, pnum))

\* one iteration of "for page_num in range(len(doc))" (lines 566-708)
PageNumbers(page, pnum, env) ==
    PageNumbersGiven(page, pnum, env, extract_numbers_from_page(page, pnum),
                     NeedsOcrOf(page, pnum, env))

---------------------------------------------------------------------------
(* Aligner/comparator and report builder *)

\* tolerance: float = 0.0001, in units
Tolerance == Pow10(FracDigits - 4)

\* variant: the gap is compared with >= instead of >
AbsDiffExceeds_Inclusive(x, y, tolerance) ==
    LET dw == x[1] - y[1]
        du == x[2] - y[2]
    IN  IF Abs(dw) >= 3 THEN TRUE
        ELSE Abs(dw * Pow10(FracDigits) + du) >= tolerance

\* abs(x - y) > tolerance on exact decimals, the tolerance below 1
AbsDiffExceeds(x, y, tolerance) ==
    LET dw == x[1] - y[1]
        du == x[2] - y[2]
    IN  IF Abs(dw) >= 3 THEN TRUE
        ELSE Abs(dw * Pow10(FracDigits) + du) > tolerance

\* variant: the baseline token's source alone
MergedSource_BaselineOnly(n1, n2) == n1.source

MergedSource(n1, n2) ==
    IF n1.source = "ocr" \/ n2.source = "ocr" THEN "ocr" ELSE "text"

\* variant: the raw texts are compared instead of the values
CommonDifferences_ByText(a, b, tolerance) ==
    Flatten([i \in 1..Min(Len(a), Len(b)) |->
        IF a[i].value # b[i].value
        THEN <<Difference(a[i].page, a[i].line_number, a[i].value, b[i].value,
                          a[i].rect, b[i].rect, MergedSource(a[i], b[i]))>>
        ELSE <<>>])

\* the loop over range(min_len) (lines 744-761)
CommonDifferences(a, b, tolerance) ==
    Flatten([i \in 1..Min(Len(a), Len(b)) |->
        IF AbsDiffExceeds(a[i].numeric_value, b[i].numeric_value, tolerance)
        THEN <<Difference(a[i].page, a[i].line_number, a[i].value, b[i].value,
                          a[i].rect, b[i].rect, MergedSource(a[i], b[i]))>>
        ELSE <<>>])

\* variant: the absent side is given the present token's box
ExtraOld_BoxOnBothSides(a, min_len) ==
    [k \in 1..(Len(a) - min_len) |->
        LET n == a[min_len + k]
        IN  Difference(n.page, n.line_number, n.value, Missing, n.rect,
                       n.rect, n.source)]

\* "Report extra numbers in PDF1" (lines 768-778)
ExtraOld(a, min_len) ==
    [k \in 1..(Len(a) - min_len) |->
        LET n == a[min_len + k]
        IN  Difference(n.page, n.line_number, n.value, Missing, n.rect,
                       EmptyRect, n.source)]

\* variant: the placeholder is put on the candidate side
ExtraNew_PlaceholderSwapped(b, min_len) ==
    [k \in 1..(Len(b) - min_len) |->
        LET n == b[min_len + k]
        IN  Difference(n.page, n.line_number, n.value, Missing, n.rect,
                       EmptyRect, n.source)]

\* "Report extra numbers in PDF2" (lines 781-791)
ExtraNew(b, min_len) ==
    [k \in 1..(Len(b) - min_len) |->
        LET n == b[min_len + k]
        IN  Difference(n.page, n.line_number, Missing, n.value, EmptyRect,
                       n.rect, n.source)]

compare_numbers(a, b, tolerance) ==
    LET min_len == Min(Len(a), Len(b))
    IN  CommonDifferences(a, b, tolerance)
        \o (IF Len(a) # Len(b)
            THEN ExtraOld(a, min_len) \o ExtraNew(b, min_len)
            ELSE <<>>)

\* variant: a single difference still passes
ReportStatus_MoreThanOne(diffs) == IF Len(diffs) <= 1 THEN "OK" ELSE "Fail"

ReportStatus(diffs) == IF Len(diffs) = 0 THEN "OK" ELSE "Fail"

\* pdf_compare22.generate_report
generate_report(diffs, output_pdf_path, ocr1, ocr2) ==
    [status |-> ReportStatus(diffs),
     total_differences |-> Len(diffs),
     ocr_used |-> [pdf1_ocr_pages |-> ocr1, pdf2_ocr_pages |-> ocr2],
     differences |-> [i \in 1..Len(diffs) |->
        [page |-> diffs[i].page + 1, line |-> diffs[i].line,
         old |-> diffs[i].old_value, new |-> diffs[i].new_value,
         source |-> diffs[i].source]],
     diff_pdf |-> output_pdf_path]

\* pdf_compare.generate_report: no provenance, no recognition counts
generate_report_v1(diffs, output_pdf_path) ==
    [status |-> ReportStatus(diffs),
     total_differences |-> Len(diffs),
     differences |-> [i \in 1..Len(diffs) |->
        [page |-> diffs[i].page + 1, line |-> diffs[i].line,
         old |-> diffs[i].old_value, new |-> diffs[i].new_value]],
     diff_pdf |-> output_pdf_path]

\* the Difference of pdf_compare.py and pdf_compare_01.py: no provenance
Difference_v1(page, line, old_value, new_value, old_rect, new_rect) ==
    [page |-> page, line |-> line, old_value |-> old_value,
     new_value |-> new_value, old_rect |-> old_rect, new_rect |-> new_rect]

\* pdf_compare_01.compare_numbers (lines 224-236): the loop over the
\* common prefix and nothing else
compare_numbers_01(nums1, nums2, tol) ==
    Flatten([i \in 1..Min(Len(nums1), Len(nums2)) |->
        IF AbsDiffExceeds(nums1[i].numeric_value, nums2[i].numeric_value, tol)
        THEN <<Difference_v1(nums1[i].page, nums1[i].line_number,
                             nums1[i].value, nums2[i].value, nums1[i].rect,
                             nums2[i].rect)>>
        ELSE <<>>])

\* pdf_compare.compare_numbers (lines 140-207)
compare_numbers_v1(a, b, tolerance) ==
    LET min_len == Min(Len(a), Len(b))
    IN  Flatten([i \in 1..min_len |->
            IF AbsDiffExceeds(a[i].numeric_value, b[i].numeric_value,
                              tolerance)
            THEN <<Difference_v1(a[i].page, a[i].line_number, a[i].value,
                                 b[i].value, a[i].rect, b[i].rect)>>
            ELSE <<>>])
        \o (IF Len(a) # Len(b)
            THEN [k \in 1..(Len(a) - min_len) |->
                    LET n == a[min_len + k]
                    IN  Difference_v1(n.page, n.line_number, n.value, Missing,
                                      n.rect, EmptyRect)]
                 \o [k \in 1..(Len(b) - min_len) |->
                    LET n == b[min_len + k]
                    IN  Difference_v1(n.page, n.line_number, Missing, n.value,
                                      EmptyRect, n.rect)]
            ELSE <<>>)

---------------------------------------------------------------------------
(* Orchestrator: find_pdf_pairs and run_all_samples *)

\* the characters of the file names of the model, in code point order
CodePointOrder ==
    <<".", "0", "1", "2", "3", "4", "5", "B", "X", "_", "a", "b", "c", "d", "e",
      "f", "h", "i", "l", "m", "n", "o", "p", "r", "s", "t", "u", "v", "w",
      "x", "y">>

Ord(c) == CHOOSE i \in 1..Len(CodePointOrder) : CodePointOrder[i] = c

\* a < b for two str
StrLess(a, b) ==
    \E k \in 1..(Min(Len(a), Len(b)) + 1) :
        /\ \A j \in 1..(k - 1) : a[j] = b[j]
        /\ \/ k > Len(a) /\ k <= Len(b)
           \/ k <= Len(a) /\ k <= Len(b) /\ Ord(a[k]) < Ord(b[k])

\* sorted() of a set of names
RECURSIVE SortedNames(_)
SortedNames(S) ==
    IF S = {} THEN <<>>
    ELSE LET m == CHOOSE x \in S : \A y \in S \ {x} : StrLess(x, y)
         IN  <<m>> \o SortedNames(S \ {m})

\* sorted(samples_dir.iterdir()): the entries by name
RECURSIVE SortedEntries(_)
SortedEntries(S) ==
    IF S = {} THEN <<>>
    ELSE LET m == CHOOSE x \in S : \A y \in S \ {x} : StrLess(x.name, y.name)
         IN  <<m>> \o SortedEntries(S \ {m})

StartsWith(t, prefix) ==
    Len(t) >= Len(prefix) /\ SubSeq(t, 1, Len(prefix)) = prefix
EndsWith(t, suffix) ==
    Len(t) >= Len(suffix)
        /\ SubSeq(t, Len(t) - Len(suffix) + 1, Len(t)) = suffix

\* Path.stem of a name with a three-letter suffix
Stem(f) == SubSeq(f, 1, Len(f) - 4)

ContainsAny(t, needles) == \E x \in needles : Contains(t, x)

OutputMarks == {<<"c", "o", "m", "p", "a", "r", "i", "s", "o", "n">>, <<"h", "i", "g", "h", "l", "i", "g", "h", "t", "e", "d">>, <<"d", "i", "f", "f">>}
OldMarks == {<<"_", "a">>, <<"o", "l", "d">>, <<"p", "a", "r", "e", "n", "t">>, <<"_", "0", "1">>, <<"0", "1", "_">>}
NewMarks == {<<"_", "b">>, <<"n", "e", "w">>, <<"c", "h", "i", "l", "d">>, <<"_", "0", "2">>, <<"0", "2", "_">>}

\* glob('*.pdf') without the output files of earlier runs
EligiblePdfs(files) ==
    {f \in files : EndsWith(f, <<".", "p", "d", "f">>) /\ ~ContainsAny(Lower(f), OutputMarks)}

NoFile == <<>>

\* the first loop over pdf_files (lines 58-68): marks anywhere in the stem
RECURSIVE FirstPass(_, _, _)
FirstPass(pdf_files, i, acc) ==
    IF i > Len(pdf_files) THEN acc
    ELSE LET name_lower == Lower(Stem(pdf_files[i]))
         IN  FirstPass(pdf_files, i + 1,
                 IF ContainsAny(name_lower, OldMarks)
                 THEN [acc EXCEPT !.pdf1 = pdf_files[i]]
                 ELSE IF ContainsAny(name_lower, NewMarks)
                 THEN [acc EXCEPT !.pdf2 = pdf_files[i]]
                 ELSE acc)

\* the second loop (lines 71-80): the end of the stem
RECURSIVE SecondPass(_, _, _)
SecondPass(pdf_files, i, acc) ==
    IF i > Len(pdf_files) THEN acc
    ELSE LET name == Stem(pdf_files[i])
         IN  SecondPass(pdf_files, i + 1,
                 IF \/ EndsWith(name, <<"_", "A">>) \/ EndsWith(name, <<"_", "a">>)
                    \/ EndsWith(name, <<"1">>)
                 THEN IF ~Contains(Lower(name), <<"n", "e", "w">>)
                      THEN [acc EXCEPT !.pdf1 = pdf_files[i]] ELSE acc
                 ELSE IF \/ EndsWith(name, <<"_", "B">>) \/ EndsWith(name, <<"_", "b">>)
                         \/ EndsWith(name, <<"2">>)
                 THEN IF ~Contains(Lower(name), <<"o", "l", "d">>)
                      THEN [acc EXCEPT !.pdf2 = pdf_files[i]] ELSE acc
                 ELSE acc)

Unpaired(acc) == acc.pdf1 = NoFile \/ acc.pdf2 = NoFile

\* the pair of one sample directory, given its sorted eligible files
PairOf(pdf_files) ==
    LET first  == FirstPass(pdf_files, 1, [pdf1 |-> NoFile, pdf2 |-> NoFile])
        second == IF Unpaired(first) THEN SecondPass(pdf_files, 1, first)
                  ELSE first
    IN  IF Unpaired(second)
        THEN [pdf1 |-> pdf_files[1], pdf2 |-> pdf_files[2]]
        ELSE second

IsSampleDir(e) == e.is_dir /\ StartsWith(e.name, <<"s", "a", "m", "p", "l", "e">>)

\* the body of the loop over the entries: nothing or one pair
SamplePairs(e) ==
    IF ~IsSampleDir(e) \/ Cardinality(EligiblePdfs(e.files)) < 2 THEN <<>>
    ELSE LET pair == PairOf(SortedNames(EligiblePdfs(e.files)))
         IN  <<<<e.name, pair.pdf1, pair.pdf2>>>>

find_pdf_pairs(entries) ==
    LET es == SortedEntries(entries)
    IN  Flatten([k \in 1..Len(es) |-> SamplePairs(es[k])])

\* what run_pipeline does for the caller: a result, or an exception
Returned(status, total) ==
    [raised |-> FALSE, status |-> status, total_differences |-> total]
Raised == [raised |-> TRUE, status |-> "", total_differences |-> 0]
PipelineOutcomes == {Returned("OK", 0), Returned("Fail", 1), Raised}

\* the entry appended to results (lines 146-163)
ResultOf(sample_name, outcome) ==
    IF outcome.raised
    THEN [sample |-> sample_name, status |-> "ERROR", differences |-> 0,
          success |-> FALSE, error |-> "e"]
    ELSE [sample |-> sample_name, status |-> outcome.status,
          differences |-> outcome.total_differences, success |-> TRUE]

\* variant: an exception ends the loop
NextPairIndex_StopsAtError(i, raised, n) == IF raised THEN n + 1 ELSE i + 1

\* "for i, (sample_name, pdf1, pdf2) in enumerate(pairs, 1)": the except
\* clause is inside the loop body
NextPairIndex(i, raised, n) == i + 1

\* the three counters of the summary (lines 180-192)
SummaryOf(rs) ==
    [ok_count    |-> Cardinality({k \in 1..Len(rs) :
                        rs[k].success /\ rs[k].status = "OK"}),
     fail_count  |-> Cardinality({k \in 1..Len(rs) :
                        rs[k].success /\ rs[k].status # "OK"}),
     error_count |-> Cardinality({k \in 1..Len(rs) : ~rs[k].success})]

NoSamples == [exists |-> FALSE, entries |-> {}]
NoSummary == [ok_count |-> 0, fail_count |-> 0, error_count |-> 0]

---------------------------------------------------------------------------
(* Highlight renderer: create_highlighted_pdf *)

\* the gap between the two pages and the margin around a box, in
\* hundredths of a point
Gap == 20 * 100
HighlightMargin == 2 * 100

\* the size taken for a page that one document does not have
DefaultPageSize == <<612 * 100, 792 * 100>>

\* fitz.Rect.is_valid, fitz.Rect.is_empty
is_valid(rect) == rect[1] <= rect[3] /\ rect[2] <= rect[4]
is_empty(rect) == rect[1] >= rect[3] \/ rect[2] >= rect[4]

\* page.rect.width, page.rect.height of page pnum, or the default size
PageSizeAt(doc, pnum) ==
    IF pnum < Len(doc) THEN <<doc[pnum + 1].width, doc[pnum + 1].height>>
    ELSE DefaultPageSize

\* orange for recognized differences, red otherwise; pdf_compare draws red
HighlightColor(diff, by_source) ==
    IF by_source /\ diff.source = "ocr" THEN "orange" ELSE "red"

\* variant: the candidate side is drawn at its native position
NewHighlight_NotShifted(diff, width1, color) ==
    IF is_valid(diff.new_rect) /\ ~is_empty(diff.new_rect)
    THEN <<[side  |-> "new", color |-> color,
            rect  |-> <<diff.new_rect[1] - HighlightMargin,
                        diff.new_rect[2] - HighlightMargin,
                        diff.new_rect[3] + HighlightMargin,
                        diff.new_rect[4] + HighlightMargin>>]>>
    ELSE <<>>

\* variant: every box is drawn, the empty one too
OldHighlight_AlwaysDrawn(diff, color) ==
    <<[side  |-> "old", color |-> color,
       rect  |-> <<diff.old_rect[1] - HighlightMargin,
                   diff.old_rect[2] - HighlightMargin,
                   diff.old_rect[3] + HighlightMargin,
                   diff.old_rect[4] + HighlightMargin>>]>>

\* "Highlight in first (old) PDF" (lines 864-872)
OldHighlight(diff, color) ==
    IF is_valid(diff.old_rect) /\ ~is_empty(diff.old_rect)
    THEN <<[side  |-> "old", color |-> color,
            rect  |-> <<diff.old_rect[1] - HighlightMargin,
                        diff.old_rect[2] - HighlightMargin,
                        diff.old_rect[3] + HighlightMargin,
                        diff.old_rect[4] + HighlightMargin>>]>>
    ELSE <<>>

\* "Highlight in second (new) PDF (offset to right side)" (lines 874-882)
NewHighlight(diff, width1, color) ==
    IF is_valid(diff.new_rect) /\ ~is_empty(diff.new_rect)
    THEN <<[side  |-> "new", color |-> color,
            rect  |-> <<diff.new_rect[1] + width1 + Gap - HighlightMargin,
                        diff.new_rect[2] - HighlightMargin,
                        diff.new_rect[3] + width1 + Gap + HighlightMargin,
                        diff.new_rect[4] + HighlightMargin>>]>>
    ELSE <<>>

\* the rectangles drawn for diffs_by_page.get(page_num, []), in list order
PageHighlights(diffs, pnum, width1, by_source) ==
    Flatten([k \in 1..Len(diffs) |->
        IF diffs[k].page = pnum
        THEN OldHighlight(diffs[k], HighlightColor(diffs[k], by_source))
             \o NewHighlight(diffs[k], width1,
                             HighlightColor(diffs[k], by_source))
        ELSE <<>>])

\* one iteration of "for page_num in range(max_pages)" (lines 827-900);
\* <<>> stands for a page that is not shown
CompositePage(d1, d2, diffs, pnum, size1, size2, by_source) ==
    [width  |-> size1[1] + size2[1] + Gap,
     height |-> Max(size1[2], size2[2]),
     shown1 |-> IF pnum < Len(d1) THEN <<0, 0, size1[1], size1[2]>> ELSE <<>>,
     shown2 |-> IF pnum < Len(d2)
                THEN <<size1[1] + Gap, 0, size1[1] + Gap + size2[1], size2[2]>>
                ELSE <<>>,
     rects  |-> PageHighlights(diffs, pnum, size1[1], by_source),
     label1 |-> <<10 * 100, 15 * 100>>,
     label2 |-> <<size1[1] + 30 * 100, 15 * 100>>]

\* the pages of output_doc
create_highlighted_pdf(d1, d2, diffs, by_source) ==
    [p \in 1..Max(Len(d1), Len(d2)) |->
        CompositePage(d1, d2, diffs, p - 1, PageSizeAt(d1, p - 1),
                      PageSizeAt(d2, p - 1), by_source)]

---------------------------------------------------------------------------
(* Inputs of the model: texts, pages, documents, token sequences *)

T_100_00    == <<"1", "0", "0", ".", "0", "0">>
T_100_0     == <<"1", "0", "0", ".", "0">>
T_100_0001  == <<"1", "0", "0", ".", "0", "0", "0", "1">>
T_100_00011 == <<"1", "0", "0", ".", "0", "0", "0", "1", "1">>
T_750_00    == <<"7", "5", "0", ".", "0", "0">>
T_800_00    == <<"8", "0", "0", ".", "0", "0">>
T_Neg425    == <<"-", "4", "2", "5", ".", "0", "0">>
T_1_234_5   == <<"$", "1", ",", "2", "3", "4", ".", "5">>
T_Yen1000   == <<"YEN", "1", ",", "0", "0", "0">>
T_Date21    == <<"2", "0", "2", "6", "-", "0", "1", "-", "2", "1">>
T_Date22    == <<"2", "0", "2", "6", "-", "0", "1", "-", "2", "2">>
T_DateDMY   == <<"2", "1", "/", "0", "1", "/", "2", "0", "2", "6">>
T_PolicyRef == <<"P", "O", "L", "-", "E", "N", "-", "2", "0", "2", "6", "-",
                 "8", "8", "4", "2", "0", "1">>
T_MixedRef  == <<"A", "B", "-", "1", "2", "-", "2", "0", "2", "6">>
T_Label     == <<"T", "o", "t", "a", "l">>
T_Cid12     == <<"(", "c", "i", "d", ":", "1", "2", ")">>
T_CidUpper  == <<"(", "C", "I", "D", ":", "A", ")">>
T_42        == <<"4", "2">>
T_Zero      == <<"0", ".", "0", "0">>
T_NegZero   == <<"-", "0", ".", "0", "0">>
T_Blank     == <<" ">>

\* date-shaped words: year first with either separator, and day first
DateWordsYMD ==
    {<<"2", "0", "2", "6">> \o <<s1>> \o m \o <<s2>> \o d :
        s1 \in {"-", "/"}, s2 \in {"-", "/"},
        m \in {<<"0", "1">>, <<"0", "2">>},
        d \in {<<"2", "1">>, <<"2", "2">>}}

DateWordsDMY ==
    {d \o <<"-">> \o m \o <<"-">> \o y :
        d \in {<<"2", "0">>, <<"2", "1">>},
        m \in {<<"2", "6">>, <<"0", "1">>},
        y \in {<<"0", "1", "2", "1">>, <<"2", "0", "2", "6">>}}

DateWords == DateWordsYMD \cup DateWordsDMY

\* the characters of the enumerated texts
TextAlphabet == {"0", "1", "2", ",", ".", "-", "/", "A", "$", " "}

RECURSIVE SeqsUpTo(_, _)
SeqsUpTo(S, n) ==
    IF n = 0 THEN {<<>>}
    ELSE LET shorter == SeqsUpTo(S, n - 1)
         IN  shorter \cup {Append(q, x) : q \in shorter, x \in S}

Corpus == {T_100_00, T_100_0001, T_100_00011, T_750_00, T_Neg425, T_1_234_5,
           T_Yen1000, T_Date21, T_DateDMY, T_PolicyRef, T_MixedRef, T_Label, T_Cid12,
           T_CidUpper, T_Zero, T_NegZero}

Texts == SeqsUpTo(TextAlphabet, MaxText) \cup Corpus

\* page size (US letter) and boxes, in hundredths of a point
PageWidth  == 612 * 100
PageHeight == 792 * 100

Span(text, bbox) == [text |-> text, bbox |-> bbox]
Word(text, bbox) == [text |-> text, bbox |-> bbox]
TextBlock(lines) == [type |-> 0, lines |-> lines]
ImageBlock == [type |-> 1, lines |-> <<>>]
Outcome(kind, words) == [kind |-> kind, words |-> words]
Page(blocks, images, ocr) ==
    [blocks |-> blocks, images |-> images, ocr |-> ocr,
     width |-> PageWidth, height |-> PageHeight]

LineBox(k) == <<7200, 7200 * k, 21600, 7200 * k + 1200>>

\* the words a recognition of the sample scan returns, not in reading order
ScanWords ==
    <<Word(T_Date21, <<500, 200, 700, 220>>), Word(T_800_00, <<100, 200, 200, 220>>),
      Word(T_PolicyRef, <<100, 100, 400, 120>>), Word(T_Label, <<100, 300, 200, 320>>)>>

\* native text only
PageNativeA ==
    Page(<<TextBlock(<<<<Span(T_100_00, LineBox(1))>>,
                       <<Span(T_Label, LineBox(2)), Span(T_750_00, LineBox(3))>>>>)>>,
         <<>>, Outcome("words", ScanWords))

\* the same layout, one value changed
PageNativeB ==
    Page(<<TextBlock(<<<<Span(T_100_00, LineBox(1))>>,
                       <<Span(T_Label, LineBox(2)), Span(T_800_00, LineBox(3))>>>>)>>,
         <<>>, Outcome("words", ScanWords))

\* a scan: no text, the page is one embedded image
PageScanned ==
    Page(<<ImageBlock>>,
         <<[bbox |-> <<0, 0, PageWidth, PageHeight>>,
            ocr  |-> Outcome("words", ScanWords)]>>,
         Outcome("words", ScanWords))

\* a scan whose recognition returns words without any number
PageScannedNoNumbers ==
    Page(<<ImageBlock>>, <<>>,
         Outcome("words", <<Word(T_Label, <<100, 100, 200, 120>>)>>))

\* unmapped glyphs only: no selectable text, yet the pattern finds "12"
PageCid ==
    Page(<<TextBlock(<<<<Span(T_Cid12, LineBox(1))>>>>)>>, <<>>,
         Outcome("words", <<Word(T_100_00, <<100, 100, 200, 120>>)>>))

\* a selectable label, no number, and the marker somewhere in the text
PageCidText ==
    Page(<<TextBlock(<<<<Span(T_Label, LineBox(1)), Span(T_CidUpper, LineBox(2))>>>>)>>,
         <<>>, Outcome("words", <<Word(T_750_00, <<100, 100, 200, 120>>)>>))

\* native text and two embedded images, the second partly off the page
PageWithImages ==
    Page(<<TextBlock(<<<<Span(T_100_00, LineBox(1))>>>>), ImageBlock>>,
         <<[bbox |-> <<10000, 20000, 30000, 40000>>,
            ocr  |-> Outcome("words", <<Word(T_42, <<100, 100, 200, 120>>)>>)],
           [bbox |-> <<50000, 70000, 70000, 90000>>,
            ocr  |-> Outcome("words", <<Word(T_1_234_5, <<0, 0, 1000, 1000>>)>>)]>>,
         Outcome("words", ScanWords))

\* a selectable label without any number, the amount inside an image
PageLabelWithImage ==
    Page(<<TextBlock(<<<<Span(T_Label, LineBox(1))>>>>), ImageBlock>>,
         <<[bbox |-> <<10000, 20000, 30000, 40000>>,
            ocr  |-> Outcome("words", <<Word(T_750_00, <<100, 100, 200, 120>>)>>)]>>,
         Outcome("words", ScanWords))

OutcomeKinds == {"words", "empty", "error", "exc"}

\* the page with every recognition call on it ending as kind k
WithOutcome(page, k) ==
    [page EXCEPT !.ocr.kind = k,
                 !.images = [i \in 1..Len(page.images) |->
                                [page.images[i] EXCEPT !.ocr.kind = k]]]

\* the page with the recognition of its first image failing only
WithFirstImageFailed(page) ==
    [page EXCEPT !.images = [i \in 1..Len(page.images) |->
        IF i = 1 THEN [page.images[i] EXCEPT !.ocr.kind = "error"]
        ELSE page.images[i]]]

\* the templates on which a recognition call can be made
RecognitionTemplates ==
    {PageScanned, PageCid, PageCidText, PageWithImages, PageLabelWithImage}

PagePool ==
    {WithOutcome(t, k) : t \in RecognitionTemplates, k \in OutcomeKinds}
    \cup {PageNativeA, PageScannedNoNumbers,
          WithFirstImageFailed(PageWithImages)}

\* documents of 1..n pages
Docs(pool, n) == SeqsUpTo(pool, n) \ {<<>>}

\* the pages of the documents compared as a pair
PairPagePool == {PageNativeA, PageNativeB, PageScanned,
                 WithOutcome(PageScanned, "error")}

\* a baseline of two pages, the second one scanned
TwoPageDoc == <<PageNativeA, PageScanned>>

\* the page with another size
Sized(page, w, h) == [page EXCEPT !.width = w, !.height = h]

PageLandscape == Sized(PageNativeB, 792 * 100, 612 * 100)
PageSmall == Sized(PageNativeA, 300 * 100, 400 * 100)

\* pairs of documents that differ in page sizes and in page counts
RenderDocPairs ==
    {<<<<PageNativeA>>, <<PageLandscape>>>>,
     <<<<PageLandscape>>, <<PageSmall>>>>,
     <<<<PageNativeA, PageSmall>>, <<PageLandscape>>>>,
     <<<<PageSmall>>, <<PageNativeA, PageLandscape>>>>,
     <<<<PageLandscape, PageNativeA>>, <<PageSmall, PageLandscape>>>>}

\* recognized words of one region: two with the same centre, a row that
\* drifts downwards, a label, a word whose centre only rounds to the row of
\* the first, and a tall word centred on that row
HarnessWords ==
    {Word(T_100_00, <<250, 100, 750, 120>>),
     Word(T_800_00, <<125, 100, 875, 120>>),
     Word(T_750_00, <<300, 120, 400, 140>>),
     Word(T_42, <<500, 140, 600, 160>>),
     Word(T_Label, <<800, 100, 840, 120>>),
     Word(T_1_234_5, <<850, 95, 950, 120>>),
     Word(T_Date21, <<300, 60, 400, 160>>)}

\* the sequences of n distinct elements of S
RECURSIVE DistinctSeqs(_, _)
DistinctSeqs(S, n) ==
    IF n = 0 THEN {<<>>}
    ELSE UNION {{Append(q, x) : x \in S \ {q[i] : i \in 1..Len(q)}} :
                   q \in DistinctSeqs(S, n - 1)}

\* the responses of 1..MaxWords words
WordLists == UNION {DistinctSeqs(HarnessWords, n) : n \in 1..MaxWords}

\* the orders in which the words of q can arrive
ArrivalOrders(q) ==
    {p \in [1..Len(q) -> {q[i] : i \in 1..Len(q)}] :
        \A i \in 1..Len(q) : \E j \in 1..Len(q) : p[j] = q[i]}

\* a token as the extractors build it from a text
Token(text, pnum, line, source) ==
    NumberMatch(text, ParseFloat(RemoveChars(text, {","})).v, pnum,
                LineBox(line), line, source)

\* tokens whose values lie at, just above and far above the tolerance
TokenPool == {Token(T_100_00, 0, 1, "text"), Token(T_100_0, 0, 1, "text"),
              Token(T_100_0001, 0, 1, "text"), Token(T_100_00011, 0, 2, "ocr"),
              Token(T_800_00, 1, 1, "ocr")}

\* tokens with boxes inside every page, at the corner of the largest page,
\* on a second page, and of no width
RenderTokenPool ==
    {Token(T_100_00, 0, 1, "text"),
     [Token(T_750_00, 0, 2, "ocr") EXCEPT
         !.rect = <<60000, 78000, 61200, 79200>>],
     [Token(T_42, 0, 3, "text") EXCEPT !.rect = <<7200, 21600, 7200, 22800>>],
     Token(T_800_00, 1, 1, "text")}

LongTokenPool == {Token(T_100_00, 0, 1, "text"), Token(T_750_00, 0, 2, "text")}

\* page indices never decrease along an extracted sequence
PagesInOrder(ns) == \A i \in 1..(Len(ns) - 1) : ns[i].page <= ns[i + 1].page

TokenSeqs ==
    {q \in SeqsUpTo(TokenPool, MaxTokens) : PagesInOrder(q)}

LongTokenSeqs == SeqsUpTo(LongTokenPool, MaxLong)

\* the sequences a document of n pages can give
RenderTokenSeqs(n) ==
    {q \in SeqsUpTo(RenderTokenPool, MaxTokens) :
        PagesInOrder(q) /\ \A i \in 1..Len(q) : q[i].page < n}

\* file and directory names
F_old == <<"o", "l", "d", ".", "p", "d", "f">>
F_new == <<"n", "e", "w", ".", "p", "d", "f">>
F_x_a == <<"x", "_", "a", ".", "p", "d", "f">>
F_X_B == <<"X", "_", "B", ".", "p", "d", "f">>
F_child1 == <<"c", "h", "i", "l", "d", "1", ".", "p", "d", "f">>
F_doc1 == <<"d", "o", "c", "1", ".", "p", "d", "f">>
F_doc2 == <<"d", "o", "c", "2", ".", "p", "d", "f">>
F_report == <<"r", "e", "p", "o", "r", "t", ".", "p", "d", "f">>
F_summary == <<"s", "u", "m", "m", "a", "r", "y", ".", "p", "d", "f">>
F_diff_old == <<"d", "i", "f", "f", "_", "o", "l", "d", ".", "p", "d", "f">>
F_comparison_result == <<"c", "o", "m", "p", "a", "r", "i", "s", "o", "n", "_", "r", "e", "s", "u", "l", "t", ".", "p", "d", "f">>
F_notes == <<"n", "o", "t", "e", "s", ".", "t", "x", "t">>
D_sample1 == <<"s", "a", "m", "p", "l", "e", "1">>
D_sample2 == <<"s", "a", "m", "p", "l", "e", "2">>
D_sample3 == <<"s", "a", "m", "p", "l", "e", "3">>
D_sample4 == <<"s", "a", "m", "p", "l", "e", "4">>
D_sample5 == <<"s", "a", "m", "p", "l", "e", "5">>
D_archive == <<"a", "r", "c", "h", "i", "v", "e">>

FileNames == {F_old, F_new, F_x_a, F_X_B, F_child1, F_doc1, F_doc2, F_report, F_summary, F_diff_old, F_comparison_result, F_notes}

\* the sets of at most n of the names
FileSets(n) == {S \in SUBSET FileNames : Cardinality(S) <= n}

Entry(name, is_dir, files) == [name |-> name, is_dir |-> is_dir, files |-> files]

\* the entries of a samples folder: a marked pair next to the output of an
\* earlier run, a pair found by the end of the names, a pair in
\* alphabetical order, a folder with a single PDF, a plain file and a
\* folder that is no sample
BatchEntries ==
    {Entry(D_sample1, TRUE, {F_old, F_new, F_comparison_result}),
     Entry(D_sample2, TRUE, {F_doc1, F_doc2}),
     Entry(D_sample3, TRUE, {F_report, F_summary}),
     Entry(D_sample4, TRUE, {F_report, F_notes}),
     Entry(D_sample5, FALSE, {}),
     Entry(D_archive, TRUE, {F_old, F_new})}

---------------------------------------------------------------------------
(* State machine *)

NoReport == [status |-> "none"]
NoExit == -1
NoPrevious == [done |-> FALSE, diffs |-> <<>>]

\* the span and the region the tokenizer harness places its text in
HarnessBox == <<10, 10, 30, 12>>
HarnessWordBox == <<100, 100, 300, 120>>
HarnessRegion == <<0, 0, PageWidth, PageHeight>>

WordsIdle == tkWords = <<>> /\ tkWords2 = <<>>

TokIdle ==
    /\ tkText = <<>> /\ tkOut = <<>> /\ tkPc = "off" /\ tkText2 = <<>>
    /\ WordsIdle

PipelineIdle ==
    /\ argsOk = TRUE /\ exists1 = TRUE /\ exists2 = TRUE
    /\ cur = 1 /\ page_num = 0 /\ all_numbers = <<>>
    /\ ocr_pages_count = 0 /\ pageLog = <<>>
    /\ ocr_pages1 = 0 /\ ocr_pages2 = 0
    /\ differences = <<>> /\ report = NoReport
    /\ pdfWritten = FALSE /\ jsonWritten = FALSE /\ explained = FALSE
    /\ output_doc = <<>>
    /\ exitCode = NoExit /\ events = <<>>

BatchIdle ==
    /\ samples = NoSamples /\ pairs = <<>> /\ pair_i = 0 /\ calls = <<>>
    /\ results = <<>> /\ summary = NoSummary /\ batchPc = "off"

RunIdle == BatchIdle /\ PipelineIdle

\* the command-line runs: the three entry points with their OCR settings
EntrySettings ==
    ({"pdf_compare22", "run_pipeline"} \X {"ok", "no_client", "no_ocr"})
    \cup {<<"pdf_compare", "no_ocr">>}

Init ==
    /\ TokIdle /\ RunIdle
    /\ \E es \in EntrySettings : entry = es[1] /\ ocrEnv = es[2]
    /\ doc1 \in Docs(PairPagePool, MaxPairPages) \cup {TwoPageDoc}
    /\ doc2 \in Docs(PairPagePool, MaxPairPages)
    /\ numbers1 = <<>> /\ numbers2 = <<>>
    /\ pc = "start" /\ run = 1 /\ prevDifferences = NoPrevious

\* extraction of one document alone
InitExt ==
    /\ TokIdle /\ RunIdle
    /\ entry = "pdf_compare22"
    /\ ocrEnv \in {"ok", "no_client", "no_plumber", "no_ocr"}
    /\ doc1 \in Docs(PagePool, MaxPages)
    /\ doc2 = <<PageNativeA>>
    /\ numbers1 = <<>> /\ numbers2 = <<>>
    /\ pc = "open" /\ run = 1 /\ prevDifferences = NoPrevious

\* comparison and report on given token sequences
InitCmp ==
    /\ TokIdle /\ RunIdle
    /\ entry \in {"pdf_compare22", "pdf_compare"}
    /\ ocrEnv = "no_ocr"
    /\ doc1 = <<PageNativeA>> /\ doc2 = <<PageNativeA>>
    /\ \/ numbers1 \in TokenSeqs /\ numbers2 \in TokenSeqs
       \/ numbers1 \in LongTokenSeqs /\ numbers2 \in LongTokenSeqs
    /\ pc = "compare" /\ run = 1 /\ prevDifferences = NoPrevious

\* the same token sequences through each of the three aligners
InitAlign ==
    /\ TokIdle /\ RunIdle
    /\ entry \in {"pdf_compare22", "pdf_compare", "pdf_compare_01"}
    /\ ocrEnv = "no_ocr"
    /\ doc1 = <<PageNativeA>> /\ doc2 = <<PageNativeA>>
    /\ \/ numbers1 \in TokenSeqs /\ numbers2 \in TokenSeqs
       \/ numbers1 \in LongTokenSeqs /\ numbers2 \in LongTokenSeqs
    /\ pc = "compare" /\ run = 1 /\ prevDifferences = NoPrevious

\* the pipeline's own variables while the orchestrator is looked at
PipelineOff ==
    /\ TokIdle
    /\ entry = "run_pipeline" /\ ocrEnv = "ok"
    /\ doc1 = <<PageNativeA>> /\ doc2 = <<PageNativeA>>
    /\ numbers1 = <<>> /\ numbers2 = <<>>
    /\ pc = "off" /\ run = 1 /\ prevDifferences = NoPrevious

BatchStart ==
    /\ pairs = <<>> /\ pair_i = 0 /\ calls = <<>>
    /\ results = <<>> /\ summary = NoSummary /\ batchPc = "scan"

\* find_pdf_pairs on one sample directory with up to MaxFiles files
InitFind ==
    /\ PipelineOff /\ PipelineIdle /\ BatchStart
    /\ \E files \in FileSets(MaxFiles) :
          samples = [exists |-> TRUE,
                     entries |-> {Entry(D_sample1, TRUE, files)}]

\* run_all_samples on a samples folder of up to MaxSamples entries
InitBatch ==
    /\ PipelineOff /\ PipelineIdle /\ BatchStart
    /\ \/ samples = NoSamples
       \/ \E es \in SUBSET BatchEntries :
             /\ Cardinality(es) <= MaxSamples
             /\ samples = [exists |-> TRUE, entries |-> es]

\* comparison and rendering of documents of several sizes and lengths
InitRender ==
    /\ TokIdle /\ RunIdle
    /\ entry \in {"pdf_compare22", "pdf_compare"}
    /\ ocrEnv = "no_ocr"
    /\ \E pair \in RenderDocPairs : doc1 = pair[1] /\ doc2 = pair[2]
    /\ numbers1 \in RenderTokenSeqs(Len(doc1))
    /\ numbers2 \in RenderTokenSeqs(Len(doc2))
    /\ pc = "compare" /\ run = 1 /\ prevDifferences = NoPrevious

\* one text through the tokenizers
InitTok ==
    /\ tkText \in Texts /\ tkOut = <<>> /\ tkPc = "in" /\ tkText2 = <<>>
    /\ WordsIdle
    /\ RunIdle
    /\ entry = "pdf_compare22" /\ ocrEnv = "no_ocr"
    /\ doc1 = <<PageNativeA>> /\ doc2 = <<PageNativeA>>
    /\ numbers1 = <<>> /\ numbers2 = <<>>
    /\ pc = "off" /\ run = 1 /\ prevDifferences = NoPrevious

\* the spans that follow the enumerated one on the scanned page
FollowingSpans == {T_750_00, <<",">>, <<",", " ", "2">>}

\* a page of two text lines: the enumerated span and a second span on the
\* first line, one amount on the second line
ScannedPage(first, second) ==
    Page(<<TextBlock(<<<<Span(first, LineBox(1)),
                        Span(second, LineBox(1))>>,
                      <<Span(T_42, LineBox(2))>>>>)>>,
         <<>>, Outcome("empty", <<>>))

\* the native scan of one page of three spans
InitScan ==
    /\ tkText \in Texts /\ tkText2 \in FollowingSpans
    /\ tkOut = <<>> /\ tkPc = "page" /\ WordsIdle
    /\ RunIdle
    /\ entry = "pdf_compare22" /\ ocrEnv = "no_ocr"
    /\ doc1 = <<PageNativeA>> /\ doc2 = <<PageNativeA>>
    /\ numbers1 = <<>> /\ numbers2 = <<>>
    /\ pc = "off" /\ run = 1 /\ prevDifferences = NoPrevious

\* two recognized words, one per document, at the same position
InitPair ==
    /\ tkText \in DateWords /\ tkText2 \in DateWords
    /\ tkOut = <<>> /\ tkPc = "pair" /\ WordsIdle
    /\ RunIdle
    /\ entry = "pdf_compare22" /\ ocrEnv = "ok"
    /\ doc1 = <<PageScanned>> /\ doc2 = <<PageScanned>>
    /\ numbers1 = <<>> /\ numbers2 = <<>>
    /\ pc = "off" /\ run = 1 /\ prevDifferences = NoPrevious

\* the words of one response, in the order of arrival and in another order
InitWords ==
    /\ tkWords \in WordLists /\ tkWords2 \in ArrivalOrders(tkWords)
    /\ tkText = <<>> /\ tkText2 = <<>> /\ tkOut = <<>> /\ tkPc = "words"
    /\ RunIdle
    /\ entry = "pdf_compare22" /\ ocrEnv = "ok"
    /\ doc1 = <<PageScanned>> /\ doc2 = <<PageScanned>>
    /\ numbers1 = <<>> /\ numbers2 = <<>>
    /\ pc = "off" /\ run = 1 /\ prevDifferences = NoPrevious

tokVars == <<tkText, tkOut, tkPc, tkText2, tkWords, tkWords2>>
inputVars == <<entry, ocrEnv, doc1, doc2>>
runVars == <<run, prevDifferences>>
extractVars == <<cur, page_num, all_numbers, ocr_pages_count, pageLog>>
resultVars == <<numbers1, numbers2, ocr_pages1, ocr_pages2>>
batchVars == <<samples, pairs, pair_i, calls, results, summary, batchPc>>
outputVars == <<differences, report, pdfWritten, jsonWritten, explained,
                output_doc>>

\* the text as one span of a text line
ScanSpan ==
    /\ tkPc = "in"
    /\ tkOut' = SpanNumbers(Span(tkText, HarnessBox), 0, 1)
    /\ tkPc' = "native"
    /\ UNCHANGED <<batchVars, tkText, tkText2, tkWords, tkWords2, inputVars, runVars,
                   extractVars,
                   resultVars, outputVars, pc, argsOk, exists1, exists2,
                   exitCode, events>>

\* extract_numbers_from_page on the page of three spans
ScanPage ==
    /\ tkPc = "page"
    /\ tkOut' = extract_numbers_from_page(ScannedPage(tkText, tkText2),
                                          0).numbers
    /\ tkPc' = "scanned"
    /\ UNCHANGED <<batchVars, tkText, tkText2, tkWords, tkWords2, inputVars, runVars,
                   extractVars,
                   resultVars, outputVars, pc, argsOk, exists1, exists2,
                   exitCode, events>>

\* the text as one recognized word
ClassifyWord ==
    /\ tkPc = "in"
    /\ tkOut' = extract_numbers_from_ocr_words(
                    <<Word(tkText, HarnessWordBox)>>, 0, HarnessRegion, 0)
    /\ tkPc' = "ocr"
    /\ UNCHANGED <<batchVars, tkText, tkText2, tkWords, tkWords2, inputVars, runVars,
                   extractVars,
                   resultVars, outputVars, pc, argsOk, exists1, exists2,
                   exitCode, events>>

\* the two words through the word classifier, then on to the comparator
ClassifyPair ==
    /\ tkPc = "pair"
    /\ numbers1' = extract_numbers_from_ocr_words(
                       <<Word(tkText, HarnessWordBox)>>, 0, HarnessRegion, 0)
    /\ numbers2' = extract_numbers_from_ocr_words(
                       <<Word(tkText2, HarnessWordBox)>>, 0, HarnessRegion, 0)
    /\ tkPc' = "paired"
    /\ pc' = "compare"
    /\ UNCHANGED <<batchVars, tkText, tkText2, tkWords, tkWords2, tkOut, inputVars,
                   runVars, extractVars,
                   ocr_pages1, ocr_pages2, outputVars, argsOk, exists1,
                   exists2, exitCode, events>>

\* the same words through the word classifier in both orders
ClassifyWords ==
    /\ tkPc = "words"
    /\ numbers1' = extract_numbers_from_ocr_words(tkWords, 0, HarnessRegion, 0)
    /\ numbers2' = extract_numbers_from_ocr_words(tkWords2, 0, HarnessRegion, 0)
    /\ tkPc' = "sorted"
    /\ UNCHANGED <<batchVars, tkText, tkText2, tkWords, tkWords2, tkOut, inputVars,
                   runVars, extractVars, ocr_pages1, ocr_pages2, outputVars,
                   pc, argsOk, exists1, exists2, exitCode, events>>

\* __main__ / run_pipeline.main: the argument count check, then the call
ParseArgs ==
    /\ pc = "start"
    /\ \E enough \in BOOLEAN, e1 \in BOOLEAN, e2 \in BOOLEAN :
        /\ argsOk' = enough
        /\ exists1' = e1 /\ exists2' = e2
        /\ IF enough
           THEN pc' = "validate" /\ exitCode' = exitCode
           ELSE pc' = "exited" /\ exitCode' = 1
    /\ events' = Append(events, <<"args", 0, 0>>)
    /\ UNCHANGED <<batchVars, tokVars, inputVars, runVars, extractVars, resultVars,
                   outputVars>>

\* variant: only the first path is checked
ValidatedPc_FirstOnly(e1, e2) == IF e1 THEN "open" ELSE "raised"

\* the two Path.exists() checks: extraction, or FileNotFoundError
ValidatedPc(e1, e2) == IF e1 /\ e2 THEN "open" ELSE "raised"

\* main: "Validate input files exist"
ValidateInputs ==
    /\ pc = "validate"
    /\ pc' = ValidatedPc(exists1, exists2)
    /\ cur' = 1
    /\ events' = Append(events, <<"validate", 0, 0>>)
    /\ UNCHANGED <<batchVars, tokVars, inputVars, runVars, resultVars, outputVars,
                   page_num, all_numbers, ocr_pages_count, pageLog, argsOk,
                   exists1, exists2, exitCode>>

CurDoc == IF cur = 1 THEN doc1 ELSE doc2

\* pdf_compare.py has no recognition path at all
EffectiveEnv == IF entry = "pdf_compare" THEN "no_ocr" ELSE ocrEnv

\* "all_numbers = []" (line 548): whatever an earlier call left is dropped
InitialNumbers(left_over) == <<>>

\* extract_all_numbers up to the page loop; fitz.open may raise
OpenDoc ==
    /\ pc = "open"
    /\ \E readable \in BOOLEAN :
        pc' = IF readable THEN "pages" ELSE "raised"
    /\ page_num' = 0
    /\ all_numbers' = InitialNumbers(all_numbers)
    /\ ocr_pages_count' = 0
    /\ events' = Append(events, <<"open", cur, 0>>)
    /\ UNCHANGED <<batchVars, tokVars, inputVars, runVars, resultVars, outputVars, cur,
                   pageLog, argsOk, exists1, exists2, exitCode>>

\* the end of the loop body, given the page's tokens and ocr_applied
PageDone(r) ==
    /\ all_numbers' = all_numbers \o r.numbers
    /\ ocr_pages_count' = ocr_pages_count + (IF r.ocr_applied THEN 1 ELSE 0)
    /\ pageLog' = Append(pageLog,
          [doc |-> cur, pnum |-> page_num, numbers |-> r.numbers,
           regions |-> r.regions,
           count_before |-> ocr_pages_count,
           count_after |-> ocr_pages_count + (IF r.ocr_applied THEN 1 ELSE 0)])

\* one iteration of the page loop
ProcessPage ==
    /\ pc = "pages" /\ page_num < Len(CurDoc)
    /\ PageDone(PageNumbers(CurDoc[page_num + 1], page_num, EffectiveEnv))
    /\ page_num' = page_num + 1
    /\ events' = Append(events, <<"page", cur, page_num>>)
    /\ UNCHANGED <<batchVars, tokVars, inputVars, runVars, resultVars, outputVars, cur,
                   pc, argsOk, exists1, exists2, exitCode>>

\* variant: the comparison starts as soon as the baseline is extracted
AfterExtract_ComparesEarly(c) == [cur |-> c, pc |-> "compare"]

\* main, step 1: the candidate is extracted after the baseline, and step 2
\* follows the second extraction
AfterExtract(c) ==
    IF c = 1 THEN [cur |-> 2, pc |-> "open"] ELSE [cur |-> c, pc |-> "compare"]

\* the loop is over: extract_all_numbers returns to main
ReturnExtract ==
    /\ pc = "pages" /\ page_num = Len(CurDoc)
    /\ IF cur = 1
       THEN /\ numbers1' = all_numbers /\ ocr_pages1' = ocr_pages_count
            /\ UNCHANGED <<numbers2, ocr_pages2>>
       ELSE /\ numbers2' = all_numbers /\ ocr_pages2' = ocr_pages_count
            /\ UNCHANGED <<numbers1, ocr_pages1>>
    /\ cur' = AfterExtract(cur).cur /\ pc' = AfterExtract(cur).pc
    /\ events' = Append(events, <<"extracted", cur, 0>>)
    /\ UNCHANGED <<batchVars, tokVars, inputVars, runVars, outputVars, page_num,
                   all_numbers, ocr_pages_count, pageLog, argsOk, exists1,
                   exists2, exitCode>>

\* variant: the list outlives the call
InitialDifferences_KeepsLeftOver(left_over) == left_over

\* "differences = []" (line 739): compare_numbers starts from an empty list
InitialDifferences(left_over) == <<>>

\* main, step 2
CompareStep ==
    /\ pc = "compare"
    /\ differences' =
         InitialDifferences(differences)
         \o (IF entry = "pdf_compare"
             THEN compare_numbers_v1(numbers1, numbers2, Tolerance)
             ELSE IF entry = "pdf_compare_01"
             THEN compare_numbers_01(numbers1, numbers2, Tolerance)
             ELSE compare_numbers(numbers1, numbers2, Tolerance))
    /\ pc' = "highlight"
    /\ events' = Append(events, <<"compare", 0, 0>>)
    /\ UNCHANGED <<batchVars, tokVars, inputVars, runVars, extractVars, resultVars,
                   report, pdfWritten, jsonWritten, explained, output_doc,
                   argsOk,
                   exists1, exists2, exitCode>>

\* main, step 3: create_highlighted_pdf; opening or saving may raise
HighlightStep ==
    /\ pc = "highlight"
    /\ \E saved \in BOOLEAN :
        /\ pdfWritten' = saved
        /\ output_doc' =
             IF saved
             THEN create_highlighted_pdf(doc1, doc2, differences,
                                         entry = "pdf_compare22")
             ELSE output_doc
        /\ pc' = IF saved THEN "report" ELSE "raised"
    /\ events' = Append(events, <<"highlight", 0, 0>>)
    /\ UNCHANGED <<batchVars, tokVars, inputVars, runVars, extractVars, resultVars,
                   differences, report, jsonWritten, explained, argsOk,
                   exists1, exists2, exitCode>>

\* main, step 4: generate_report, then (pdf_compare22) the JSON file
ReportStep ==
    /\ pc = "report"
    /\ report' =
         IF entry = "pdf_compare"
         THEN generate_report_v1(differences, "output_path")
         ELSE generate_report(differences, "output_path", ocr_pages1,
                              ocr_pages2)
    /\ IF entry = "pdf_compare"
       THEN jsonWritten' = jsonWritten /\ pc' = "returned"
       ELSE \E saved \in BOOLEAN :
               /\ jsonWritten' = saved
               /\ pc' = IF saved THEN "returned" ELSE "raised"
    /\ events' = Append(events, <<"report", 0, 0>>)
    /\ UNCHANGED <<batchVars, tokVars, inputVars, runVars, extractVars, resultVars,
                   differences, pdfWritten, explained, output_doc, argsOk,
                   exists1,
                   exists2, exitCode>>

\* run_pipeline, step 2: the explanation, when an API key is set
ExplainStep ==
    /\ pc = "returned" /\ entry = "run_pipeline"
    /\ \E api_key \in BOOLEAN, answered \in BOOLEAN :
        /\ explained' = (api_key /\ answered)
        /\ pc' = IF api_key /\ ~answered THEN "raised" ELSE "exiting"
    /\ events' = Append(events, <<"explain", 0, 0>>)
    /\ UNCHANGED <<batchVars, tokVars, inputVars, runVars, extractVars, resultVars,
                   differences, report, pdfWritten, jsonWritten, output_doc,
                   argsOk,
                   exists1, exists2, exitCode>>

\* sys.exit(0 if status == "OK" else 1)
ExitCodeFor(rep) == IF rep.status = "OK" THEN 0 ELSE 1

ExitStep ==
    /\ \/ pc = "returned" /\ entry # "run_pipeline"
       \/ pc = "exiting"
    /\ exitCode' = ExitCodeFor(report)
    /\ pc' = "exited"
    /\ events' = Append(events, <<"exit", 0, 0>>)
    /\ UNCHANGED <<batchVars, tokVars, inputVars, runVars, extractVars, resultVars,
                   outputVars, argsOk, exists1, exists2>>

\* except Exception: ... sys.exit(2)
HandleException ==
    /\ pc = "raised"
    /\ exitCode' = 2
    /\ pc' = "exited"
    /\ events' = Append(events, <<"except", 0, 0>>)
    /\ UNCHANGED <<batchVars, tokVars, inputVars, runVars, extractVars, resultVars,
                   outputVars, argsOk, exists1, exists2>>

Compared == \E i \in 1..Len(events) : events[i][1] = "compare"

\* the comparison is started again on the same pair, as run_all_samples
\* does call after call: the history of the finished run is dropped, the
\* locals are left for the code to initialise
Rerun ==
    /\ pc = "exited" /\ run < MaxRuns
    /\ run' = run + 1
    /\ prevDifferences' =
         IF Compared THEN [done |-> TRUE, diffs |-> differences]
         ELSE prevDifferences
    /\ pc' = "start"
    /\ pageLog' = <<>> /\ events' = <<>> /\ exitCode' = NoExit
    /\ report' = NoReport
    /\ pdfWritten' = FALSE /\ jsonWritten' = FALSE /\ explained' = FALSE
    /\ output_doc' = <<>>
    /\ UNCHANGED <<batchVars, tokVars, inputVars, resultVars, differences, cur,
                   page_num, all_numbers, ocr_pages_count, argsOk, exists1,
                   exists2>>

pipelineVars == <<tokVars, inputVars, runVars, extractVars, resultVars,
                  outputVars, pc, argsOk, exists1, exists2, exitCode, events>>

\* run_all_samples up to the loop: the folder must exist and hold a pair
FindPairs ==
    /\ batchPc = "scan"
    /\ IF ~samples.exists
       THEN pairs' = pairs /\ batchPc' = "exited"
       ELSE /\ pairs' = find_pdf_pairs(samples.entries)
            /\ batchPc' = IF pairs' = <<>> THEN "exited" ELSE "loop"
    /\ pair_i' = 1
    /\ results' = <<>>
    /\ UNCHANGED <<pipelineVars, samples, calls, summary>>

\* one iteration of the loop over the pairs: run_pipeline returns or raises
ProcessPair ==
    /\ batchPc = "loop" /\ pair_i <= Len(pairs)
    /\ \E outcome \in PipelineOutcomes :
        /\ calls' = Append(calls, [pdf1 |-> pairs[pair_i][2],
                                   pdf2 |-> pairs[pair_i][3],
                                   raised |-> outcome.raised])
        /\ results' = Append(results, ResultOf(pairs[pair_i][1], outcome))
        /\ pair_i' = NextPairIndex(pair_i, outcome.raised, Len(pairs))
    /\ UNCHANGED <<pipelineVars, samples, pairs, summary, batchPc>>

\* the loop is over: the summary is counted and results returned
Summarize ==
    /\ batchPc = "loop" /\ pair_i > Len(pairs)
    /\ summary' = SummaryOf(results)
    /\ batchPc' = "returned"
    /\ UNCHANGED <<pipelineVars, samples, pairs, pair_i, calls, results>>

Next ==
    \/ ParseArgs \/ ValidateInputs
    \/ OpenDoc \/ ProcessPage \/ ReturnExtract
    \/ CompareStep \/ HighlightStep \/ ReportStep
    \/ ExplainStep \/ ExitStep \/ HandleException
    \/ Rerun

NextExt ==
    \/ cur = 1 /\ OpenDoc
    \/ cur = 1 /\ ProcessPage
    \/ cur = 1 /\ ReturnExtract

NextCmp == CompareStep \/ HighlightStep \/ ReportStep

NextRender == CompareStep \/ HighlightStep

NextTok == ScanSpan \/ ClassifyWord

NextPair == ClassifyPair \/ CompareStep

NextWords == ClassifyWords

NextScan == ScanPage

NextAlign == CompareStep

NextFind == FindPairs

NextBatch == FindPairs \/ ProcessPair \/ Summarize

Spec == Init /\ [][Next]_vars
SpecExt == InitExt /\ [][NextExt]_vars
SpecCmp == InitCmp /\ [][NextCmp]_vars
SpecRender == InitRender /\ [][NextRender]_vars
SpecTok == InitTok /\ [][NextTok]_vars
SpecPair == InitPair /\ [][NextPair]_vars
SpecWords == InitWords /\ [][NextWords]_vars
SpecScan == InitScan /\ [][NextScan]_vars
SpecAlign == InitAlign /\ [][NextAlign]_vars
SpecFind == InitFind /\ [][NextFind]_vars
SpecBatch == InitBatch /\ [][NextBatch]_vars

---------------------------------------------------------------------------
(* Properties of the comparator and the report (under SpecCmp) *)

\* a value in units of 10^-FracDigits
Units(v) == v[1] * Pow10(FracDigits) + v[2]

\* |V(a) - V(b)| in units
GapUnits(n1, n2) == Abs(Units(n1.numeric_value) - Units(n2.numeric_value))

\* 0.0001 in units
TenThousandth == Pow10(FracDigits) \div 10000

MinLen == Min(Len(numbers1), Len(numbers2))

\* the indices of the common prefix whose values lie further apart than
\* the tolerance
ReportedIdx == {i \in 1..MinLen : GapUnits(numbers1[i], numbers2[i]) > TenThousandth}

\* the position among the reported indices
Rank(i) == Cardinality({j \in ReportedIdx : j <= i})

LeftOver == Abs(Len(numbers1) - Len(numbers2))

LeftOverDifferences == SubSeq(differences, Len(differences) - LeftOver + 1, Len(differences))

OldMissing == {k \in 1..Len(differences) : differences[k].old_value = Missing}
NewMissing == {k \in 1..Len(differences) : differences[k].new_value = Missing}

\* C2: when the lengths differ, the common prefix's Differences are followed
\* by one Difference per leftover token of the longer sequence, in index
\* order, with "<missing>" on the absent side; 5 against 3 tokens gives
\* exactly two, the candidate side missing; no list holds both kinds.
C2_OneDifferencePerLeftOver ==
    Compared =>
        /\ Len(differences) >= LeftOver
        /\ \A k \in 1..LeftOver :
              IF Len(numbers1) > Len(numbers2)
              THEN /\ LeftOverDifferences[k].old_value = numbers1[MinLen + k].value
                   /\ LeftOverDifferences[k].new_value = Missing
              ELSE /\ LeftOverDifferences[k].old_value = Missing
                   /\ LeftOverDifferences[k].new_value = numbers2[MinLen + k].value
        /\ \A k \in 1..(Len(differences) - LeftOver) :
              k \notin OldMissing /\ k \notin NewMissing
        /\ (Len(numbers1) = 5 /\ Len(numbers2) = 3
              => Cardinality(NewMissing) = 2 /\ OldMissing = {})
        /\ (OldMissing = {} \/ NewMissing = {})

\* five tokens against three, a changed value in the common prefix
C2_Witness ==
    /\ Compared
    /\ Len(numbers1) = 5 /\ Len(numbers2) = 3
    /\ Len(differences) = 3
    /\ Cardinality(NewMissing) = 2

\* C3: the report's status is "OK" exactly when the Difference list is
\* empty and "Fail" otherwise, its total_differences is the list's length,
\* and its differences are the list's, in the same number and order.
C3_ReportMirrorsDifferences ==
    report # NoReport =>
        /\ report.status \in {"OK", "Fail"}
        /\ (report.status = "OK" <=> differences = <<>>)
        /\ report.total_differences = Len(differences)
        /\ Len(report.differences) = Len(differences)
        /\ \A k \in 1..Len(differences) :
              /\ report.differences[k].old = differences[k].old_value
              /\ report.differences[k].new = differences[k].new_value
              /\ report.differences[k].line = differences[k].line
              /\ report.differences[k].page = differences[k].page + 1

\* a failing report of a single Difference
C3_Witness ==
    /\ report # NoReport
    /\ report.status = "Fail"
    /\ Len(differences) = 1

SameValues ==
    /\ Len(numbers1) = Len(numbers2)
    /\ \A i \in 1..Len(numbers1) :
          numbers1[i].numeric_value = numbers2[i].numeric_value

\* C4: two token sequences of the same length and the same values, index
\* by index, give an empty Difference list and a report of status "OK".
C4_IdenticalSequencesPass ==
    SameValues =>
        /\ (Compared => differences = <<>>)
        /\ (report # NoReport => report.status = "OK")

\* equal values written differently ("100.00" and "100.0"), reported OK
C4_Witness ==
    /\ SameValues
    /\ Len(numbers1) >= 2
    /\ \E i \in 1..Len(numbers1) : numbers1[i].value # numbers2[i].value
    /\ report # NoReport /\ report.status = "OK"

---------------------------------------------------------------------------
(* Properties of the tokenizers (under SpecTok) *)

\* the raw text parsed again, grouping commas removed
Reparse(raw) == ParseFloat(RemoveChars(raw, {","}))

RoundTrips(t) == Reparse(t.value).ok /\ Reparse(t.value).v = t.numeric_value

\* C5, as stated: every token's raw text, commas removed, parses again to
\* exactly the token's value, whichever path extracted it.
C5_RoundTripEveryToken ==
    \A k \in 1..Len(tkOut) : RoundTrips(tkOut[k])

\* C5, amended: every token round-trips except the date-shaped ones, whose
\* raw text is the date as written and does not parse, and whose value is
\* the three digit groups written one after the other.
C5_RoundTripExceptDates ==
    \A k \in 1..Len(tkOut) :
        IF DatePatternMatch(tkOut[k].value)
        THEN /\ ~Reparse(tkOut[k].value).ok
             /\ Reparse(Flatten(DigitRuns(tkOut[k].value, 1))).ok
             /\ Reparse(Flatten(DigitRuns(tkOut[k].value, 1))).v
                    = tkOut[k].numeric_value
        ELSE RoundTrips(tkOut[k])

\* a composite word has given its digit run as a token
C5_Witness ==
    /\ tkPc = "ocr" /\ tkText = T_PolicyRef
    /\ Len(tkOut) = 2
    /\ RoundTrips(tkOut[1]) /\ RoundTrips(tkOut[2])

---------------------------------------------------------------------------
(* Properties of the run (under Spec) *)

\* C6: a second run on the same pair, with the same recognition responses,
\* gives the Difference list of the first run.
C6_SecondRunSameDifferences ==
    (run >= 2 /\ prevDifferences.done /\ Compared)
        => differences = prevDifferences.diffs

\* both runs compared, and found something
C6_Witness ==
    /\ run >= 2 /\ prevDifferences.done /\ Compared
    /\ pc = "exited"
    /\ differences # <<>>

\* main returned its report: all outputs of the entry point are written
Completed ==
    /\ Compared /\ pdfWritten /\ report # NoReport
    /\ (entry # "pdf_compare" => jsonWritten)

\* too few arguments: the usage text, then the differences-found code
C7_Witness ==
    /\ pc = "exited" /\ ~argsOk
    /\ ~Compared
    /\ exitCode = 1

\* C7, as stated: exit code 0 exactly for a completed comparison without
\* differences, 1 exactly for a completed comparison with differences, 2
\* whenever the comparison could not complete.
C7_ThreeExitCodes ==
    pc = "exited" =>
        /\ (exitCode = 0 <=> (Completed /\ differences = <<>>))
        /\ (exitCode = 1 <=> (Completed /\ differences # <<>>))
        /\ (~Completed => exitCode = 2)

\* C9: when one of the two paths does not exist, main raises before any
\* extraction, and neither the highlighted PDF nor the JSON is written.
C9_MissingInputStopsBeforeExtraction ==
    (argsOk /\ ~(exists1 /\ exists2) /\ pc # "start") =>
        /\ pc \in {"validate", "raised", "exited"}
        /\ \A k \in 1..Len(events) : events[k][1] \in {"args", "validate", "except"}
        /\ ~pdfWritten /\ ~jsonWritten
        /\ (pc = "exited" => exitCode = 2)

\* the candidate path is missing: the run has ended in the handler
C9_Witness ==
    /\ argsOk /\ exists1 /\ ~exists2
    /\ pc = "exited" /\ exitCode = 2
    /\ ~pdfWritten /\ ~jsonWritten

---------------------------------------------------------------------------
(* Properties of the document extractor (under SpecExt) *)

\* no recognition call can be made, or every call that can be made on the
\* page ends without words (empty response, service error, exception)
RecognitionFails(page, env) ==
    \/ ~OcrUsable(env)
    \/ /\ page.ocr.kind # "words"
       /\ \A i \in 1..Len(page.images) : page.images[i].ocr.kind # "words"

PageThenSourceOrder(ns) ==
    \A i, j \in 1..Len(ns) :
        i < j =>
            /\ ns[i].page <= ns[j].page
            /\ (ns[i].page = ns[j].page /\ ns[i].source = "ocr"
                    => ns[j].source # "text")

\* C10: in the sequence extract_all_numbers builds and returns, page
\* indices are non-decreasing and, within a page, no native-text token
\* comes after a recognized token.
C10_PageOrderNativeFirst ==
    PageThenSourceOrder(all_numbers) /\ PageThenSourceOrder(numbers1)

\* two pages returned, the first with native tokens before recognized ones
C10_Witness ==
    /\ cur = 2
    /\ \E i, j \in 1..Len(numbers1) :
          /\ i < j /\ numbers1[i].page = 0 /\ numbers1[j].page = 0
          /\ numbers1[i].source = "text" /\ numbers1[j].source = "ocr"
    /\ \E i \in 1..Len(numbers1) : numbers1[i].page = 1

\* the embedded raster regions of the page that can be cropped
CroppableImages(page) ==
    {i \in 1..Len(page.images) :
        clamp_bbox_to_page(page.images[i].bbox,
                           <<0, 0, page.width, page.height>>) # <<>>}

\* the first two rules of the decision policy, on the page's content
WantsFullPage(page, pnum) ==
    LET nat == extract_numbers_from_page(page, pnum)
    IN  \/ ~nat.has_selectable_text
        \/ /\ nat.numbers = <<>>
           /\ Contains(Lower(PageRawText(page)), CidMarker)

\* C11: with recognition available, a page without genuine native text is
\* recognized as a whole; else a page without native numbers whose text
\* holds the unmapped-glyph marker is recognized as a whole; else each
\* embedded raster region is recognized, and only those. The whole page and
\* its embedded regions are never both recognized.
C11_OneRecognitionActionPerPage ==
    \A k \in 1..Len(pageLog) :
        LET e    == pageLog[k]
            page == doc1[e.pnum + 1]
        IN  (e.doc = 1 /\ OcrUsable(ocrEnv)) =>
               /\ IF WantsFullPage(page, e.pnum)
                  THEN e.regions = <<"page">>
                  ELSE /\ Len(e.regions) = Cardinality(CroppableImages(page))
                       /\ \A j \in 1..Len(e.regions) : e.regions[j] = "image"
               /\ ~(\E i, j \in 1..Len(e.regions) :
                        e.regions[i] = "page" /\ e.regions[j] = "image")

\* the three rules, one page each: no text, marker without numbers, a
\* label without numbers beside an image (pages of different documents)
C11_Witness ==
    /\ ocrEnv = "ok" /\ Len(doc1) = 2 /\ Len(pageLog) = 2
    /\ doc1[1] = PageCidText /\ pageLog[1].regions = <<"page">>
    /\ doc1[2] = PageLabelWithImage /\ pageLog[2].regions = <<"image">>
    /\ pageLog[2].numbers # <<>>

---------------------------------------------------------------------------
(* Properties of the word classifier (under SpecTok) *)

\* the word as the classifier looks at it
Cleaned == CleanText(tkText)

\* the maximal digit runs of the cleaned word, as <<first, last>> positions
MaximalDigitRuns ==
    {r \in (1..Len(Cleaned)) \X (1..Len(Cleaned)) :
        /\ r[1] <= r[2]
        /\ \A i \in r[1]..r[2] : Cleaned[i] \in Digits
        /\ (r[1] = 1 \/ Cleaned[r[1] - 1] \notin Digits)
        /\ (r[2] = Len(Cleaned) \/ Cleaned[r[2] + 1] \notin Digits)}

\* the runs of at least 3 digits, or the only run of the word
KeptDigitRuns ==
    IF Cardinality(MaximalDigitRuns) = 1 THEN MaximalDigitRuns
    ELSE {r \in MaximalDigitRuns : r[2] - r[1] + 1 >= 3}

\* left-to-right position among the kept runs
RunRank(r) == Cardinality({q \in KeptDigitRuns : q[1] <= r[1]})

IsCompositeWord ==
    /\ tkPc = "ocr" /\ Cleaned # <<>>
    /\ ~DatePatternMatch(Cleaned) /\ ~NumberPatternMatch(Cleaned)

\* C12: a recognized word that is neither date-shaped nor pure-number-shaped
\* gives one token per maximal digit run, left to right, a run shorter than
\* 3 digits only when it is the word's only run; "POL-EN-2026-884201" gives
\* exactly 2026 and 884201.
C12_CompositeDigitRuns ==
    IsCompositeWord =>
        /\ Len(tkOut) = Cardinality(KeptDigitRuns)
        /\ \A r \in KeptDigitRuns :
              /\ tkOut[RunRank(r)].value = SubSeq(Cleaned, r[1], r[2])
              /\ tkOut[RunRank(r)].numeric_value
                    = <<DigitsValue(SubSeq(Cleaned, r[1], r[2])), 0>>
              /\ tkOut[RunRank(r)].source = "ocr"
        /\ (tkText = T_PolicyRef =>
              /\ Len(tkOut) = 2
              /\ tkOut[1].value = <<"2", "0", "2", "6">>
              /\ tkOut[2].value = <<"8", "8", "4", "2", "0", "1">>)

\* a reference with a short run beside a long one: only the long one
C12_Witness ==
    /\ IsCompositeWord /\ tkText = T_MixedRef
    /\ Cardinality(MaximalDigitRuns) = 2
    /\ Len(tkOut) = 1 /\ tkOut[1].value = <<"2", "0", "2", "6">>

---------------------------------------------------------------------------
(* Properties of recognized dates (under SpecPair) *)

\* the three digit groups of a date-shaped word, by the place of its first
\* separator
DateGroups(t) ==
    IF t[5] \in DateSeps
    THEN <<SubSeq(t, 1, 4), SubSeq(t, 6, 7), SubSeq(t, 9, 10)>>
    ELSE <<SubSeq(t, 1, 2), SubSeq(t, 4, 5), SubSeq(t, 7, 10)>>

\* the digits of the word, separators left out
DateDigits(t) == DateGroups(t)[1] \o DateGroups(t)[2] \o DateGroups(t)[3]

\* one token, the word as raw text, the concatenated groups as value
IsDateToken(ns, t) ==
    /\ Len(ns) = 1
    /\ ns[1].value = t
    /\ ns[1].numeric_value = <<DigitsValue(DateDigits(t)), 0>>

\* C13, as stated: a date-shaped word gives exactly one token valued by the
\* concatenation of its three digit groups, and two aligned date tokens
\* whose digit groups are not all equal are reported as a Difference.
C13_DatesWithOtherGroupsDiffer ==
    /\ (tkPc = "paired" => IsDateToken(numbers1, tkText)
                            /\ IsDateToken(numbers2, tkText2))
    /\ ((tkPc = "paired" /\ Compared /\ DateGroups(tkText) # DateGroups(tkText2))
            => Len(differences) = 1)

\* C13, amended: the token is as stated; two aligned date tokens are
\* reported exactly when their concatenated digits differ, which two dates
\* of the same shape with a different group always do.
C13_DatesWithOtherDigitsDiffer ==
    /\ (tkPc = "paired" => IsDateToken(numbers1, tkText)
                            /\ IsDateToken(numbers2, tkText2))
    /\ ((tkPc = "paired" /\ Compared) =>
           /\ (Len(differences) = 1 <=> DateDigits(tkText) # DateDigits(tkText2))
           /\ (Len(differences) = 0 <=> DateDigits(tkText) = DateDigits(tkText2))
           /\ ((tkText[5] \in DateSeps <=> tkText2[5] \in DateSeps)
                  /\ DateGroups(tkText) # DateGroups(tkText2)
                  => Len(differences) = 1))

\* "2026-01-21" against "2026-01-22": one Difference with both dates
C13_Witness ==
    /\ tkPc = "paired" /\ Compared
    /\ tkText = T_Date21 /\ tkText2 = T_Date22
    /\ Len(differences) = 1
    /\ differences[1].old_value = T_Date21
    /\ differences[1].new_value = T_Date22

---------------------------------------------------------------------------
(* Properties of pure-number-shaped recognized words (under SpecTok) *)

IsPureNumberWord ==
    /\ tkPc = "ocr" /\ Cleaned # <<>>
    /\ NumberPatternMatch(Cleaned)

\* every digit of the cleaned word is a zero
EveryDigitZero ==
    \A i \in 1..Len(Cleaned) : Cleaned[i] \in Digits => Cleaned[i] = "0"

\* C14, as stated: a pure-number-shaped recognized word gives exactly one
\* token, unless every digit of the word is zero, signed forms such as "-0"
\* and "-0.00" included, and then it gives none.
C14_OneTokenUnlessAllZero ==
    IsPureNumberWord =>
        IF EveryDigitZero THEN tkOut = <<>> ELSE Len(tkOut) = 1

\* "-0.00" is kept as a token of value zero
C14_Witness ==
    /\ IsPureNumberWord /\ tkText = T_NegZero
    /\ EveryDigitZero
    /\ Len(tkOut) = 1
    /\ tkOut[1].value = T_NegZero
    /\ tkOut[1].numeric_value = <<0, 0>>

---------------------------------------------------------------------------
(* Properties of the boxes of recognized tokens (under SpecExt) *)

\* the regions handed to recognition on a logged page, each with the words
\* its response returned
RecognizedRegions(e) ==
    LET page == doc1[e.pnum + 1]
    IN  IF e.regions = <<"page">>
        THEN {[rect  |-> <<0, 0, page.width, page.height>>,
               words |-> ocr_image_with_boxes(page.ocr)]}
        ELSE {[rect  |-> clamp_bbox_to_page(page.images[i].bbox,
                             <<0, 0, page.width, page.height>>),
               words |-> ocr_image_with_boxes(page.images[i].ocr)] :
                 i \in {j \in CroppableImages(page) : e.regions # <<>>}}

\* corner = region offset + normalised coordinate * region size, per axis;
\* normalised coordinates are in thousandths
MappedFrom(rect, bbox, region) ==
    /\ 1000 * (rect[1] - region[1]) = bbox[1] * (region[3] - region[1])
    /\ 1000 * (rect[2] - region[2]) = bbox[2] * (region[4] - region[2])
    /\ 1000 * (rect[3] - region[1]) = bbox[3] * (region[3] - region[1])
    /\ 1000 * (rect[4] - region[2]) = bbox[4] * (region[4] - region[2])

RectWithin(rect, region) ==
    /\ region[1] <= rect[1] /\ rect[1] <= region[3]
    /\ region[1] <= rect[3] /\ rect[3] <= region[3]
    /\ region[2] <= rect[2] /\ rect[2] <= region[4]
    /\ region[2] <= rect[4] /\ rect[4] <= region[4]

UnitBox(bbox) == \A k \in 1..4 : 0 <= bbox[k] /\ bbox[k] <= 1000

\* C15: the box of every recognized token is the normalised box of a word
\* of a recognized region, scaled by the region's size and moved by the
\* region's offset; when the normalised box is within [0,1] the token's box
\* is within the region.
C15_RecognizedBoxMappedIntoRegion ==
    \A k \in 1..Len(pageLog) :
        LET e == pageLog[k]
        IN  e.doc = 1 =>
               \A i \in 1..Len(e.numbers) :
                   e.numbers[i].source = "ocr" =>
                      \E g \in RecognizedRegions(e) :
                          \E j \in 1..Len(g.words) :
                              /\ MappedFrom(e.numbers[i].rect,
                                            g.words[j].bbox, g.rect)
                              /\ (UnitBox(g.words[j].bbox) =>
                                     RectWithin(e.numbers[i].rect, g.rect))

\* tokens of two embedded images, the second region cut at two page edges
C15_Witness ==
    /\ Len(pageLog) >= 1 /\ doc1[1] = PageWithImages
    /\ pageLog[1].regions = <<"image", "image">>
    /\ Len(pageLog[1].numbers) = 3
    /\ pageLog[1].numbers[2].rect = <<12000, 22000, 14000, 22400>>
    /\ pageLog[1].numbers[3].rect = <<50000, 70000, 61200, 79200>>

---------------------------------------------------------------------------
(* Properties of the boxes of tokens and Differences (under Spec) *)

WellFormed(rect) == rect[1] <= rect[3] /\ rect[2] <= rect[4]

AllWellFormed(ns) == \A i \in 1..Len(ns) : WellFormed(ns[i].rect)

\* |V(a) - V(b)| > 0.0001, for values of any size: whole parts 3 or more
\* apart decide alone
FarApart(n1, n2) ==
    LET dw == n1.numeric_value[1] - n2.numeric_value[1]
        du == n1.numeric_value[2] - n2.numeric_value[2]
    IN  IF Abs(dw) >= 3 THEN TRUE
        ELSE Abs(dw * Pow10(FracDigits) + du) > TenThousandth

\* the reported indices of the common prefix, and the position among them
FarApartIdx == {i \in 1..MinLen : FarApart(numbers1[i], numbers2[i])}

FarRank(i) == Cardinality({j \in FarApartIdx : j <= i})

\* C16: the box of every extracted token is well-formed; in every
\* Difference a "<missing>" side carries the empty box, and a side that
\* stands for a token carries that token's box as extracted.
C16_BoxesWellFormedAndCarried ==
    /\ AllWellFormed(all_numbers)
    /\ AllWellFormed(numbers1) /\ AllWellFormed(numbers2)
    /\ Compared =>
          /\ \A k \in OldMissing : differences[k].old_rect = EmptyRect
          /\ \A k \in NewMissing : differences[k].new_rect = EmptyRect
          /\ Len(differences) = Cardinality(FarApartIdx) + LeftOver
          /\ \A i \in FarApartIdx :
                /\ differences[FarRank(i)].old_rect = numbers1[i].rect
                /\ differences[FarRank(i)].new_rect = numbers2[i].rect
          /\ \A k \in 1..LeftOver :
                IF Len(numbers1) > Len(numbers2)
                THEN /\ LeftOverDifferences[k].old_rect = numbers1[MinLen + k].rect
                     /\ LeftOverDifferences[k].new_value = Missing
                ELSE /\ LeftOverDifferences[k].new_rect = numbers2[MinLen + k].rect
                     /\ LeftOverDifferences[k].old_value = Missing

\* a native document against a scan: a changed pair with a native and a
\* recognized box, and leftover recognized tokens with the empty box on the
\* baseline side
C16_Witness ==
    /\ Compared
    /\ doc1 = <<PageNativeA>> /\ doc2 = <<PageScanned>>
    /\ Len(numbers2) > Len(numbers1)
    /\ FarApartIdx # {}
    /\ differences[1].old_rect # differences[1].new_rect
    /\ OldMissing # {}
    /\ \A k \in OldMissing :
          /\ differences[k].old_rect = EmptyRect
          /\ differences[k].new_rect # EmptyRect

---------------------------------------------------------------------------
(* Properties of the provenance of Differences (under SpecCmp) *)

IsRecognized(n) == n.source = "ocr"

\* C17: a Difference of the common prefix has source "ocr" exactly when at
\* least one of its two aligned tokens is recognized, and "text" otherwise;
\* a leftover Difference has the source of its one token.
C17_OriginFromEitherSide ==
    (Compared /\ entry = "pdf_compare22") =>
        /\ \A i \in ReportedIdx :
              /\ differences[Rank(i)].source \in {"ocr", "text"}
              /\ differences[Rank(i)].source = "ocr"
                    <=> (IsRecognized(numbers1[i]) \/ IsRecognized(numbers2[i]))
        /\ \A k \in 1..LeftOver :
              LeftOverDifferences[k].source =
                 (IF Len(numbers1) > Len(numbers2)
                  THEN numbers1[MinLen + k].source
                  ELSE numbers2[MinLen + k].source)

\* a native baseline token against a recognized one, then a native leftover
C17_Witness ==
    /\ Compared /\ entry = "pdf_compare22"
    /\ Len(numbers1) = 1 /\ Len(numbers2) = 2
    /\ ~IsRecognized(numbers1[1]) /\ IsRecognized(numbers2[1])
    /\ ~IsRecognized(numbers2[2])
    /\ Len(differences) = 2
    /\ differences[1].source = "ocr" /\ differences[2].source = "text"

---------------------------------------------------------------------------
(* Properties of the highlighted document (under SpecRender) *)

Rendered == output_doc # <<>>

\* the size of page p (from 1) of a document, 612 x 792 points when the
\* document has no such page
SizeOf(doc, p) ==
    IF p <= Len(doc) THEN <<doc[p].width, doc[p].height>>
    ELSE <<612 * 100, 792 * 100>>

\* the Differences whose page index is that of composite page p
OnPage(p) == {k \in 1..Len(differences) : differences[k].page = p - 1}

\* a box that is neither missing, invalid nor empty
Drawable(rect) == rect[1] < rect[3] /\ rect[2] < rect[4]

\* the box grown by m on every side and moved right by dx
Expanded(rect, m, dx) ==
    <<rect[1] + dx - m, rect[2] - m, rect[3] + dx + m, rect[4] + m>>

Encloses(outer, inner) ==
    /\ outer[1] <= inner[1] /\ inner[3] <= outer[3]
    /\ outer[2] <= inner[2] /\ inner[4] <= outer[4]

RectsOf(p, side) ==
    {output_doc[p].rects[j].rect :
        j \in {i \in 1..Len(output_doc[p].rects) :
                  output_doc[p].rects[i].side = side}}

\* C18: composite page p is widthA + widthB + 20 wide and as high as the
\* higher page; page A is shown at the origin and page B at x = widthA + 20;
\* the baseline highlights are the old boxes grown by the margin of 2, the
\* candidate highlights the new boxes grown by the margin and moved right
\* by widthA + 20; a new box inside page B is highlighted inside B's area
\* grown by the margin.
C18_SideBySideLayout ==
    Rendered =>
        /\ Len(output_doc) = Max(Len(doc1), Len(doc2))
        /\ \A p \in 1..Len(output_doc) :
              LET c  == output_doc[p]
                  sA == SizeOf(doc1, p)
                  sB == SizeOf(doc2, p)
                  dx == sA[1] + 20 * 100
              IN  /\ c.width = sA[1] + sB[1] + 20 * 100
                  /\ c.height = Max(sA[2], sB[2])
                  /\ (p <= Len(doc1) => c.shown1 = <<0, 0, sA[1], sA[2]>>)
                  /\ (p <= Len(doc2) =>
                         c.shown2 = <<dx, 0, dx + sB[1], sB[2]>>)
                  /\ RectsOf(p, "old") =
                        {Expanded(differences[k].old_rect, 2 * 100, 0) :
                            k \in {i \in OnPage(p) :
                                      Drawable(differences[i].old_rect)}}
                  /\ RectsOf(p, "new") =
                        {Expanded(differences[k].new_rect, 2 * 100, dx) :
                            k \in {i \in OnPage(p) :
                                      Drawable(differences[i].new_rect)}}
                  /\ \A k \in OnPage(p) :
                        (/\ p <= Len(doc2)
                         /\ Drawable(differences[k].new_rect)
                         /\ Encloses(<<0, 0, sB[1], sB[2]>>,
                                     differences[k].new_rect))
                        => Encloses(Expanded(c.shown2, 2 * 100, 0),
                                    Expanded(differences[k].new_rect,
                                             2 * 100, dx))

\* a landscape page beside a small page; the changed pair is outlined on
\* both sides, the candidate's outline 792 + 20 points to the right
C18_Witness ==
    /\ Rendered
    /\ doc1 = <<PageLandscape>> /\ doc2 = <<PageSmall>>
    /\ output_doc[1].width = (792 + 300 + 20) * 100
    /\ output_doc[1].height = 612 * 100
    /\ output_doc[1].shown2 = <<81200, 0, 111200, 40000>>
    /\ \E k \in OnPage(1) :
          /\ differences[k].new_rect = <<7200, 7200, 21600, 8400>>
          /\ <<88200, 7000, 103000, 8600>> \in RectsOf(1, "new")
          /\ Drawable(differences[k].old_rect)
          /\ Expanded(differences[k].old_rect, 200, 0) \in RectsOf(1, "old")

\* the sides of the Differences of composite page p that can be drawn
DrawableOld(p) == {k \in OnPage(p) : Drawable(differences[k].old_rect)}
DrawableNew(p) == {k \in OnPage(p) : Drawable(differences[k].new_rect)}

\* C19: on composite page p as many rectangles are drawn as there are
\* valid non-empty old boxes and valid non-empty new boxes among the
\* Differences of page index p; a "<missing>" side draws none.
C19_OneRectanglePerDrawableBox ==
    Rendered =>
        \A p \in 1..Len(output_doc) :
            /\ Len(output_doc[p].rects)
                  = Cardinality(DrawableOld(p)) + Cardinality(DrawableNew(p))
            /\ \A k \in OnPage(p) :
                  /\ (differences[k].old_value = Missing => k \notin DrawableOld(p))
                  /\ (differences[k].new_value = Missing => k \notin DrawableNew(p))
            /\ Len(output_doc[p].rects)
                  = Cardinality({k \in DrawableOld(p) :
                                    differences[k].old_value # Missing})
                    + Cardinality({k \in DrawableNew(p) :
                                    differences[k].new_value # Missing})

\* a page with a leftover Difference and a Difference whose baseline box
\* has no width: one rectangle each, on the candidate side
C19_Witness ==
    /\ Rendered
    /\ Len(differences) = 2 /\ OnPage(1) = {1, 2}
    /\ differences[2].old_value = Missing
    /\ differences[1].old_rect = <<7200, 21600, 7200, 22800>>
    /\ Drawable(differences[1].new_rect)
    /\ Len(output_doc[1].rects) = 2
    /\ \A j \in 1..2 : output_doc[1].rects[j].side = "new"

---------------------------------------------------------------------------
(* Properties of full-page recognition (under SpecExt) *)

\* the logged pages that were recognized as a whole
FullPageEntries ==
    {k \in 1..Len(pageLog) : pageLog[k].doc = 1 /\ pageLog[k].regions = <<"page">>}

\* C20, as stated: a page that was recognized as a whole contributes
\* recognized tokens only, its native tokens are discarded.
C20_FullPageDiscardsNative ==
    \A k \in FullPageEntries :
        \A i \in 1..Len(pageLog[k].numbers) :
            pageLog[k].numbers[i].source = "ocr"

\* a page of unmapped glyphs whose recognition answers without any word:
\* the number inside the glyph marker stays as a native token
C20_Witness ==
    /\ ocrEnv = "ok" /\ 1 \in FullPageEntries
    /\ doc1[1] = WithOutcome(PageCid, "empty")
    /\ Len(pageLog[1].numbers) = 1
    /\ pageLog[1].numbers[1].source = "text"
    /\ pageLog[1].numbers[1].value = <<"1", "2">>
    /\ pageLog[1].count_after = pageLog[1].count_before

---------------------------------------------------------------------------
(* Properties of the order of recognized words (under SpecWords) *)

\* twice the vertical centre of a box, and its row: the centre rounded to
\* hundredths, in units of a twentieth of a hundredth
TwiceCentreY(bbox) == bbox[2] + bbox[4]

RoundedRow(bbox) ==
    CHOOSE r \in 0..100 :
        /\ Abs(TwiceCentreY(bbox) - 20 * r) <= 10
        /\ (Abs(TwiceCentreY(bbox) - 20 * r) = 10 => r % 2 = 0)

TwiceCentreX(bbox) == bbox[1] + bbox[3]

\* the boxes of the tokens, back in normalised coordinates of the region
\* (the page, 612 x 792 points)
TokenBox(n) ==
    <<(n.rect[1] * 1000) \div (612 * 100), (n.rect[2] * 1000) \div (792 * 100),
      (n.rect[3] * 1000) \div (612 * 100), (n.rect[4] * 1000) \div (792 * 100)>>

\* rows never decrease along the tokens, nor do centres within a row
InReadingOrder(ns) ==
    \A i \in 1..(Len(ns) - 1) :
        \/ RoundedRow(TokenBox(ns[i])) < RoundedRow(TokenBox(ns[i + 1]))
        \/ /\ RoundedRow(TokenBox(ns[i])) = RoundedRow(TokenBox(ns[i + 1]))
           /\ TwiceCentreX(TokenBox(ns[i])) <= TwiceCentreX(TokenBox(ns[i + 1]))

\* C21, as stated: the words of a response give the same token sequence in
\* whatever order they arrive, the tokens following non-decreasing rounded
\* vertical centre and, within a rounded row, non-decreasing horizontal
\* centre.
C21_SameTokensForEveryArrivalOrder ==
    tkPc = "sorted" =>
        /\ numbers1 = numbers2
        /\ InReadingOrder(numbers1) /\ InReadingOrder(numbers2)

\* two words with the same centre arrive in either order: the tokens come
\* out in the order of arrival
C21_Witness ==
    /\ tkPc = "sorted"
    /\ Len(tkWords) = 2 /\ tkWords2 = <<tkWords[2], tkWords[1]>>
    /\ RoundedRow(tkWords[1].bbox) = RoundedRow(tkWords[2].bbox)
    /\ TwiceCentreX(tkWords[1].bbox) = TwiceCentreX(tkWords[2].bbox)
    /\ Len(numbers1) = 2
    /\ numbers2 = <<numbers1[2], numbers1[1]>>
    /\ numbers1 # numbers2

---------------------------------------------------------------------------
(* Properties of the line numbers of recognized tokens (under SpecWords) *)

\* every word of the response gave exactly one token, so that token i stands
\* for the i-th word visited
OneTokenPerWord ==
    /\ tkPc = "sorted" /\ Len(numbers1) = Len(tkWords)
    /\ \A i \in 1..Len(tkWords) :
          \E j \in 1..Len(numbers1) :
              numbers1[j].rect = MapRect(tkWords[i].bbox, HarnessRegion)

\* the vertical centres of two boxes lie more than 3% of the region's height
\* apart
CentresApart(b1, b2) == Abs(TwiceCentreY(b1) - TwiceCentreY(b2)) > 2 * 30

\* C22, as stated: along the visited words the line number goes up by one
\* exactly when the vertical centre of a word lies more than the line
\* tolerance from that of the word just before it, and stays the same
\* otherwise.
C22_NewLineIffFarFromPredecessor ==
    OneTokenPerWord =>
        \A i \in 1..(Len(numbers1) - 1) :
            numbers1[i + 1].line_number =
                IF CentresApart(TokenBox(numbers1[i]), TokenBox(numbers1[i + 1]))
                THEN numbers1[i].line_number + 1
                ELSE numbers1[i].line_number

\* three words, each 2% of the height below the one before: the third
\* starts a new line
C22_Witness ==
    /\ OneTokenPerWord /\ Len(numbers1) = 3
    /\ \A i \in 1..2 :
          /\ TwiceCentreY(TokenBox(numbers1[i + 1]))
                - TwiceCentreY(TokenBox(numbers1[i])) = 2 * 20
          /\ TokenBox(numbers1[i + 1])[2] - TokenBox(numbers1[i])[2] = 20
    /\ numbers1[1].line_number = 1
    /\ numbers1[2].line_number = 1
    /\ numbers1[3].line_number = 2


---------------------------------------------------------------------------
(* C23: the line counter starts afresh for every page and every region *)

LoggedPage(e) == IF e.doc = 1 THEN doc1[e.pnum + 1] ELSE doc2[e.pnum + 1]

RecognizedOf(ns) == SelectSeq(ns, IsRecognized)
NativeOf(ns) == SelectSeq(ns, LAMBDA n : ~IsRecognized(n))

\* what the embedded images of a page yield when the counter of every
\* region starts at zero, as the counter of the native scan does
FreshImageTokens(page, pnum) ==
    Flatten([i \in 1..Len(page.images) |-> ImageNumbers(page, i, pnum, 0)])

\* what the whole page yields as one region, its counter starting at zero
FreshPageTokens(page, pnum) ==
    extract_numbers_from_ocr_words(ocr_image_with_boxes(page.ocr), pnum,
                                   <<0, 0, page.width, page.height>>, 0)

\* C23: on every page the native tokens are those of a scan of that page
\* alone, and the recognized tokens of every region carry the line numbers
\* that a counter starting at zero gives them, however many tokens were
\* extracted before on the page or on earlier pages
C23_LineCounterStartsAfresh ==
    \A k \in 1..Len(pageLog) :
        LET e    == pageLog[k]
            page == LoggedPage(e)
        IN  /\ e.regions = <<"page">> /\ RecognizedOf(e.numbers) # <<>>
                => e.numbers = FreshPageTokens(page, e.pnum)
            /\ e.regions # <<"page">>
                => /\ NativeOf(e.numbers)
                        = extract_numbers_from_page(page, e.pnum).numbers
                   /\ RecognizedOf(e.numbers)
                        = FreshImageTokens(page, e.pnum)

\* a native token and then two images of one word each: the words get the
\* lines 2 and 3
C23_Witness ==
    \E k \in 1..Len(pageLog) :
        LET e == pageLog[k]
        IN  /\ e.regions = <<"image", "image">>
            /\ Len(e.numbers) = 3
            /\ ~IsRecognized(e.numbers[1]) /\ e.numbers[1].line_number = 1
            /\ IsRecognized(e.numbers[2]) /\ e.numbers[2].line_number = 2
            /\ IsRecognized(e.numbers[3]) /\ e.numbers[3].line_number = 3
            /\ Len(FreshImageTokens(LoggedPage(e), e.pnum)) = 2
            /\ \A i \in 1..2 :
                  FreshImageTokens(LoggedPage(e), e.pnum)[i].line_number = 1

---------------------------------------------------------------------------
(* C24: the stages of a run happen in sequence *)

EventsOf(kind) == {i \in 1..Len(events) : events[i][1] = kind}

\* the pages of document d scanned before event j, in the order scanned
PagesScannedBefore(d, j) ==
    LET idx == SelectSeq([i \in 1..(j - 1) |-> i],
                         LAMBDA i : events[i][1] = "page" /\ events[i][2] = d)
    IN  [k \in 1..Len(idx) |-> events[idx[k]][3]]

\* C24: before the extraction of the candidate starts, every page of the
\* baseline has been scanned, in page order; the comparison comes after the
\* extraction of both documents; the highlighted PDF is written before the
\* report and its JSON file; the explanation is asked for only after the
\* report exists
C24_StagesInSequence ==
    /\ \A j \in EventsOf("open") :
          events[j][2] = 2
            => /\ PagesScannedBefore(1, j) = [k \in 1..Len(doc1) |-> k - 1]
               /\ PagesScannedBefore(2, j) = <<>>
    /\ \A i \in EventsOf("page"), j \in EventsOf("page") :
          i < j /\ events[i][2] = events[j][2] => events[i][3] < events[j][3]
    /\ \A j \in EventsOf("compare") :
          \E a \in 1..(j - 1), b \in 1..(j - 1) :
              /\ a < b
              /\ events[a] = <<"extracted", 1, 0>>
              /\ events[b] = <<"extracted", 2, 0>>
              /\ PagesScannedBefore(2, b) = [k \in 1..Len(doc2) |-> k - 1]
    /\ \A j \in EventsOf("highlight") :
          \E i \in EventsOf("compare") : i < j
    /\ \A j \in EventsOf("report") :
          \E i \in EventsOf("highlight") : i < j
    /\ report # NoReport => pdfWritten
    /\ jsonWritten => pdfWritten /\ report # NoReport
    /\ \A j \in EventsOf("explain") :
          \E i \in EventsOf("report") : i < j
    /\ explained => report # NoReport /\ jsonWritten

\* a pipeline run over a baseline of two pages that got as far as the
\* explanation
C24_Witness ==
    /\ entry = "run_pipeline" /\ explained
    /\ Len(doc1) = 2
    /\ PagesScannedBefore(1, Len(events) + 1) = <<0, 1>>
    /\ EventsOf("explain") # {}
    /\ pdfWritten /\ jsonWritten

---------------------------------------------------------------------------
(* C25: a skipped match does not stop the native scan *)

HasDigit(t) == \E i \in 1..Len(t) : t[i] \in Digits

\* the texts matched by the number pattern in the spans of the scanned
\* page, in document order, each with the line it is on
SpanMatches(text, line) ==
    LET ms == Finditer(text, 1)
    IN  [k \in 1..Len(ms) |->
            [text |-> SubSeq(text, ms[k].start, ms[k].end - 1),
             line |-> line]]

PageMatches ==
    SpanMatches(tkText, 1) \o SpanMatches(tkText2, 1) \o SpanMatches(T_42, 2)

\* C25: the tokens of the scan are the matches that hold a digit, all of
\* them and in document order, each with its matched text and its line;
\* the matches without a digit (punctuation only, no number to convert)
\* yield nothing and leave the later matches of the same span and of the
\* later spans in place
C25_SkippedMatchDoesNotStopScan ==
    tkPc = "scanned"
        => /\ [k \in 1..Len(tkOut) |->
                  [text |-> tkOut[k].value, line |-> tkOut[k].line_number]]
                = SelectSeq(PageMatches, LAMBDA m : HasDigit(m.text))
           /\ \A k \in 1..Len(tkOut) : HasDigit(tkOut[k].value)

\* a match without a digit in the first span and one in the second span,
\* each followed by a token of the same span, and the third span's token
C25_Witness ==
    /\ tkPc = "scanned"
    /\ \E i \in 1..Len(SpanMatches(tkText, 1)),
          j \in 1..Len(SpanMatches(tkText, 1)) :
            /\ i < j
            /\ ~HasDigit(SpanMatches(tkText, 1)[i].text)
            /\ HasDigit(SpanMatches(tkText, 1)[j].text)
    /\ \E i \in 1..Len(SpanMatches(tkText2, 1)),
          j \in 1..Len(SpanMatches(tkText2, 1)) :
            /\ i < j
            /\ ~HasDigit(SpanMatches(tkText2, 1)[i].text)
            /\ HasDigit(SpanMatches(tkText2, 1)[j].text)
    /\ Len(tkOut) >= 3
    /\ tkOut[Len(tkOut)].value = T_42
    /\ tkOut[Len(tkOut)].line_number = 2

---------------------------------------------------------------------------
(* C26: the recognition page count *)

\* the page indices that have a recognized token in ns
RecognizedPages(ns) ==
    {ns[i].page : i \in {j \in 1..Len(ns) : IsRecognized(ns[j])}}

\* C26: the count that extract_all_numbers returns is the number of
\* distinct page indices with a recognized token in the returned sequence,
\* as is the running count after every page; a page adds nothing or one to
\* it, and the count lies between zero and the number of pages
C26_CountIsPagesWithRecognizedToken ==
    /\ ocr_pages_count = Cardinality(RecognizedPages(all_numbers))
    /\ \A k \in 1..Len(pageLog) :
          /\ pageLog[k].count_after - pageLog[k].count_before \in {0, 1}
          /\ pageLog[k].count_after - pageLog[k].count_before = 1
                <=> RecognizedPages(pageLog[k].numbers) # {}
    /\ cur = 2
          => /\ ocr_pages1 = Cardinality(RecognizedPages(numbers1))
             /\ ocr_pages1 \in 0..Len(doc1)

\* two pages returned, recognition attempted on both (the first has two
\* recognized image tokens, the second came back without a number), count 1
C26_Witness ==
    /\ cur = 2 /\ Len(doc1) = 2 /\ ocr_pages1 = 1
    /\ pageLog[1].regions = <<"image", "image">>
    /\ Cardinality({i \in 1..Len(numbers1) : IsRecognized(numbers1[i])}) = 2
    /\ pageLog[2].regions = <<"page">>
    /\ pageLog[2].count_after = pageLog[2].count_before


---------------------------------------------------------------------------
(* C27: the page of a Difference and the pages of its two tokens *)

\* C27: every Difference of the common prefix carries the page index of
\* its baseline token and of its candidate token, so that a candidate-side
\* highlight on composite page p surrounds a token of page p of the
\* candidate
C27_DifferencePageIsPageOfBothTokens ==
    pc # "compare"
        => \A i \in FarApartIdx :
              /\ differences[FarRank(i)].page = numbers1[i].page
              /\ differences[FarRank(i)].page = numbers2[i].page

\* the second tokens differ, the baseline's on its second page and the
\* candidate's on its first: the candidate's box is outlined on the second
\* composite page
C27_Witness ==
    /\ Rendered /\ Len(differences) = 1
    /\ Len(numbers1) = 2 /\ Len(numbers2) = 2
    /\ FarApartIdx = {2}
    /\ numbers1[2].page = 1 /\ numbers2[2].page = 0
    /\ differences[1].page = 1
    /\ differences[1].new_rect = numbers2[2].rect
    /\ Drawable(numbers2[2].rect)
    /\ RectsOf(2, "new")
         = {Expanded(numbers2[2].rect, HighlightMargin,
                     SizeOf(doc1, 2)[1] + Gap)}
    /\ RectsOf(1, "new") = {}

---------------------------------------------------------------------------
(* C28: the three aligners give the same alignment *)

\* what an aligner's result says: page, line, old text, new text
Alignment(diffs) ==
    [k \in 1..Len(diffs) |->
        <<diffs[k].page, diffs[k].line, diffs[k].old_value,
          diffs[k].new_value>>]

\* the index of the common prefix that is the k-th reported one
FarIndex(k) == CHOOSE i \in FarApartIdx : FarRank(i) = k

\* the alignment of two sequences: the positions of the common prefix whose
\* values are further apart than the tolerance, in order, and then one entry
\* per token beyond the shorter sequence
ExpectedAlignment ==
    LET reported == Cardinality(FarApartIdx)
    IN  [k \in 1..(reported + LeftOver) |->
            IF k <= reported
            THEN <<numbers1[FarIndex(k)].page,
                   numbers1[FarIndex(k)].line_number,
                   numbers1[FarIndex(k)].value, numbers2[FarIndex(k)].value>>
            ELSE IF Len(numbers1) > Len(numbers2)
            THEN LET n == numbers1[MinLen + k - reported]
                 IN  <<n.page, n.line_number, n.value, Missing>>
            ELSE LET n == numbers2[MinLen + k - reported]
                 IN  <<n.page, n.line_number, Missing, n.value>>]

\* C28: on the same two token sequences the aligners of pdf_compare.py,
\* pdf_compare22.py and pdf_compare_01.py give the same ordered list of
\* (page, line, old text, new text)
C28_ThreeAlignersAgree ==
    pc # "compare" => Alignment(differences) = ExpectedAlignment

\* the sequences differ in length and pdf_compare_01 reports nothing for
\* the token beyond the shorter one
C28_Witness ==
    /\ pc # "compare" /\ entry = "pdf_compare_01"
    /\ Len(numbers1) = 2 /\ Len(numbers2) = 1
    /\ FarApartIdx = {}
    /\ differences = <<>>
    /\ ExpectedAlignment
         = <<<<numbers1[2].page, numbers1[2].line_number, numbers1[2].value,
               Missing>>>>

---------------------------------------------------------------------------
(* C29: the pair of a sample directory *)

TheEntry == CHOOSE e \in samples.entries : TRUE

\* C29: for a sample directory with at least two eligible PDFs
\* find_pdf_pairs returns a pair of two distinct files of that directory
C29_PairOfTwoDistinctFiles ==
    batchPc # "scan" /\ Cardinality(EligiblePdfs(TheEntry.files)) >= 2
        => /\ Len(pairs) = 1
           /\ pairs[1][1] = TheEntry.name
           /\ pairs[1][2] \in EligiblePdfs(TheEntry.files)
           /\ pairs[1][3] \in EligiblePdfs(TheEntry.files)
           /\ pairs[1][2] # pairs[1][3]

\* two eligible PDFs, and the pair names child1.pdf twice
C29_Witness ==
    /\ batchPc = "loop"
    /\ TheEntry.files = {F_child1, F_report}
    /\ pairs = <<<<D_sample1, F_child1, F_child1>>>>

---------------------------------------------------------------------------
(* C30: run_all_samples handles every pair once *)

\* C30: the pairs are handed to run_pipeline one by one in the order
\* found, each once; every call leaves one result, "ERROR" exactly when
\* the call raised, and the pairs after a failed one are still processed;
\* at the end there is one result per pair and the three counts of the
\* summary add up to the number of pairs
C30_EveryPairOnceInOrder ==
    /\ Len(calls) = Len(results)
    /\ Len(calls) <= Len(pairs)
    /\ \A k \in 1..Len(calls) :
          /\ calls[k].pdf1 = pairs[k][2] /\ calls[k].pdf2 = pairs[k][3]
          /\ results[k].sample = pairs[k][1]
          /\ results[k].status = "ERROR" <=> calls[k].raised
          /\ results[k].success <=> ~calls[k].raised
    /\ batchPc = "returned"
          => /\ Len(results) = Len(pairs)
             /\ summary.ok_count + summary.fail_count + summary.error_count
                    = Len(pairs)
             /\ summary.error_count
                    = Cardinality({k \in 1..Len(calls) : calls[k].raised})

\* three pairs; the first call raised, the other two returned, one a match
\* and one with differences
C30_Witness ==
    /\ batchPc = "returned" /\ Len(pairs) = 3
    /\ calls[1].raised /\ ~calls[2].raised /\ ~calls[3].raised
    /\ results[1].status = "ERROR"
    /\ results[2].status = "OK" /\ results[3].status = "Fail"
    /\ summary = [ok_count |-> 1, fail_count |-> 1, error_count |-> 1]

====
